---- MODULE Spec2Model ----
(***************************************************************************)
(* Model of the competitive research pipeline of competitive-intel-tool:   *)
(* competitor discovery, content scraping, the LLM analysis runner and the *)
(* comparison table, in the two revisions of the script                    *)
(* (competitive_research.py and main.py).                                  *)
(***************************************************************************)
EXTENDS Integers, Sequences, FiniteSets, TLC

VARIABLES
    rev,              \* which revision of the script runs: "comprehensive"
                      \* (competitive_research.py) or "main" (main.py)
    creds,            \* which of the three search credentials were entered
    company_name,     \* the target company's name
    dpc,              \* discovery: where discover_competitors* stands
    qi,               \* discovery: index of the next query of the current backend
    raw_competitors,  \* discovery: the function's list competitors
    requests,         \* discovery: the search requests issued so far, in order
    competitors,      \* the list discovery returned
    site,             \* scraper: what the web answers for the company being scraped
    record,           \* scraper: the value scrape_company_comprehensive returned
    mpc,              \* main(): the step it is at
    si,               \* scrape_competitors*: index of the next competitor
    target_company_data,  \* main(): the target's record (company_data in main.py)
    competitor_data,  \* the mapping from company name to scraped record
    apc,              \* analyze_competitive_landscape: where it stands
    ai,               \* analyze_competitive_landscape: index of the next prompt
    content,          \* what prepare_competitive_content returned
    analyses,         \* the dict analyses filled by the loop over the prompts
    calls,            \* the chat-completion calls made so far and their outcomes
    competitive_analysis,  \* what analyze_competitive_landscape returned
    tpc,              \* display_competitive_overview: where it stands
    ti,               \* display_competitive_overview: index of the next competitor
    table_analysis,   \* the text under table_data
    parsed_data,      \* the variable parsed_data
    table_data,       \* the rows of the table built so far
    fn,               \* a function called on its own: which one
    arg,              \* its argument
    ret               \* what it returned

discoverVars == <<rev, creds, company_name, dpc, qi, raw_competitors, requests, competitors>>
scrapeVars == <<site, record>>
pipelineVars == <<mpc, si, target_company_data, competitor_data>>
analyzeVars == <<apc, ai, content, analyses, calls, competitive_analysis>>
tableVars == <<tpc, ti, table_analysis, parsed_data, table_data>>
callVars == <<fn, arg, ret>>
notDiscoverVars == <<scrapeVars, pipelineVars, analyzeVars, tableVars, callVars>>
notScrapeVars == <<discoverVars, pipelineVars, analyzeVars, tableVars, callVars>>
notPipelineVars == <<discoverVars, scrapeVars, analyzeVars, tableVars, callVars>>
notAnalyzeVars == <<discoverVars, scrapeVars, pipelineVars, tableVars, callVars>>
notTableVars == <<discoverVars, scrapeVars, pipelineVars, analyzeVars, callVars>>
notCallVars == <<discoverVars, scrapeVars, pipelineVars, analyzeVars, tableVars>>
vars == <<discoverVars, scrapeVars, pipelineVars, analyzeVars, tableVars, callVars>>

\* A value that is no result of any operation: the operation has not run.
NotRun == [notrun |-> TRUE]

\* The values of the variables of a part of the program that does not run.
DiscoverIdle ==
    /\ rev = "comprehensive" /\ creds = NotRun /\ company_name = NotRun
    /\ dpc = "idle" /\ qi = 1 /\ raw_competitors = <<>> /\ requests = <<>>
    /\ competitors = NotRun
ScrapeIdle == site = NotRun /\ record = NotRun
PipelineIdle ==
    /\ mpc = "idle" /\ si = 1
    /\ target_company_data = NotRun /\ competitor_data = NotRun
AnalyzeIdle ==
    /\ apc = "idle" /\ ai = 1 /\ content = NotRun /\ analyses = NotRun
    /\ calls = <<>> /\ competitive_analysis = NotRun
TableIdle ==
    /\ tpc = "idle" /\ ti = 1 /\ table_analysis = NotRun
    /\ parsed_data = NotRun /\ table_data = <<>>
CallIdle == fn = "none" /\ arg = NotRun /\ ret = NotRun

(***************************************************************************)
(* Python values.  None, strings and lists are tagged so that any two      *)
(* values can be compared; a dict is a record of its keys.  A string holds *)
(* its sequence of characters.                                             *)
(***************************************************************************)
None == [t |-> "None"]
Str(s) == [t |-> "str", s |-> s]
List(l) == [t |-> "list", l |-> l]
EmptyStr == Str(<<>>)

\* Python truthiness of None, a string or a list
Truthy(v) == v # None /\ v # EmptyStr /\ v # List(<<>>)

Whitespace == {" ", "\n"}

RECURSIVE LStrip(_)
LStrip(s) ==
    IF s # <<>> /\ Head(s) \in Whitespace THEN LStrip(Tail(s)) ELSE s

RECURSIVE RStrip(_)
RStrip(s) ==
    IF s # <<>> /\ s[Len(s)] \in Whitespace
    THEN RStrip(SubSeq(s, 1, Len(s) - 1))
    ELSE s

\* str.strip(), and get_text(strip=True) of an element whose text is v
Strip(v) == Str(RStrip(LStrip(v.s)))

\* F of the value of e, with e evaluated once
With(e, F(_)) == CHOOSE y \in {F(x) : x \in {e}} : TRUE

\* seq[:n]
Take(seq, n) == SubSeq(seq, 1, IF Len(seq) < n THEN Len(seq) ELSE n)

ToLower ==
    ("A" :> "a") @@ ("B" :> "b") @@ ("C" :> "c") @@ ("D" :> "d") @@ ("E" :> "e") @@ ("F" :> "f")
    @@ ("G" :> "g") @@ ("H" :> "h") @@ ("I" :> "i") @@ ("J" :> "j") @@ ("K" :> "k") @@ ("L" :> "l")
    @@ ("M" :> "m") @@ ("N" :> "n") @@ ("O" :> "o") @@ ("P" :> "p") @@ ("Q" :> "q") @@ ("R" :> "r")
    @@ ("S" :> "s") @@ ("T" :> "t") @@ ("U" :> "u") @@ ("V" :> "v") @@ ("W" :> "w") @@ ("X" :> "x")
    @@ ("Y" :> "y") @@ ("Z" :> "z")

\* str.lower(), on the characters
LowerChars(s) == [i \in 1..Len(s) |-> IF s[i] \in DOMAIN ToLower THEN ToLower[s[i]] ELSE s[i]]
Lower(v) == Str(LowerChars(v.s))

StartsWith(s, p) == Len(p) <= Len(s) /\ SubSeq(s, 1, Len(p)) = p

\* p in s
ContainsChars(s, p) == \E i \in 0..(Len(s) - Len(p)) : SubSeq(s, i + 1, i + Len(p)) = p
Contains(v, p) == ContainsChars(v.s, p.s)

RECURSIVE ReplaceChars(_, _, _)
\* str.replace(old, new): the occurrences of old, left to right, not overlapping
ReplaceChars(s, old, new) ==
    IF s = <<>> THEN <<>>
    ELSE IF StartsWith(s, old)
         THEN new \o ReplaceChars(SubSeq(s, Len(old) + 1, Len(s)), old, new)
         ELSE <<Head(s)>> \o ReplaceChars(Tail(s), old, new)
Replace(v, old, new) == Str(ReplaceChars(v.s, old, new))

RECURSIVE SplitWs(_, _)
\* str.split(): the maximal runs of non-whitespace characters
SplitWs(s, cur) ==
    IF s = <<>> THEN (IF cur = <<>> THEN <<>> ELSE <<Str(cur)>>)
    ELSE IF Head(s) \in Whitespace
         THEN (IF cur = <<>> THEN <<>> ELSE <<Str(cur)>>) \o SplitWs(Tail(s), <<>>)
         ELSE SplitWs(Tail(s), Append(cur, Head(s)))
Split(v) == SplitWs(v.s, <<>>)

RECURSIVE SplitSep(_, _, _)
\* str.split(sep)
SplitSep(s, sep, cur) ==
    IF s = <<>> THEN <<Str(cur)>>
    ELSE IF StartsWith(s, sep)
         THEN <<Str(cur)>> \o SplitSep(SubSeq(s, Len(sep) + 1, Len(s)), sep, <<>>)
         ELSE SplitSep(Tail(s), sep, Append(cur, Head(s)))
SplitOn(v, sep) == SplitSep(v.s, sep, <<>>)

RECURSIVE JoinChars(_, _)
JoinChars(words, sep) ==
    IF words = <<>> THEN <<>>
    ELSE IF Len(words) = 1 THEN words[1].s
         ELSE words[1].s \o sep \o JoinChars(Tail(words), sep)
\* sep.join(words)
Join(words, sep) == Str(JoinChars(words, sep))

(***************************************************************************)
(* Pages.  A parsed document is described by what the extractors ask of    *)
(* it: the text of its title element (or None), the text of the first      *)
(* element each CSS selector matches (sel, a function on the selectors     *)
(* that match something), the texts of the elements whose class matches    *)
(* feature|benefit|capability, in document order, and the elements whose   *)
(* class matches pricing|plan|tier, each a function from the selectors     *)
(* that match inside it to the matched element's text.                     *)
(***************************************************************************)
NoSel == [x \in {} |-> EmptyStr]

Page(title, sel, featureEls, pricingEls) ==
    [title |-> title, sel |-> sel, featureEls |-> featureEls,
     pricingEls |-> pricingEls]

\* select_one(selector): the text of the first matching element, or None
SelectOne(sel, selector) ==
    IF selector \in DOMAIN sel THEN sel[selector] ELSE None

RECURSIVE extract_text_by_selectors_first(_, _)
\* variant of the code: the first selector that matches decides, empty or not
extract_text_by_selectors_first(soup, selectors) ==
    IF selectors = <<>> THEN EmptyStr
    ELSE LET element == SelectOne(soup.sel, Head(selectors))
         IN  IF element # None
             THEN Strip(element)
             ELSE extract_text_by_selectors_first(soup, Tail(selectors))

RECURSIVE extract_text_by_selectors(_, _)
extract_text_by_selectors(soup, selectors) ==
    IF selectors = <<>> THEN EmptyStr
    ELSE LET element == SelectOne(soup.sel, Head(selectors))
         IN  IF element # None /\ Strip(element) # EmptyStr
             THEN Strip(element)
             ELSE extract_text_by_selectors(soup, Tail(selectors))

HomepageFeatureScan == 10
HomepageFeatureMaxLen == 100
PageFeatureMaxLen == 150
PageFeatureCap == 20

RECURSIVE KeepFeatures(_, _)
\* the loop of both feature extractors: keep the stripped texts that are
\* non-empty and shorter than maxLen
KeepFeatures(elements, maxLen) ==
    IF elements = <<>> THEN <<>>
    ELSE LET text == Strip(Head(elements))
             rest == KeepFeatures(Tail(elements), maxLen)
         IN  IF text # EmptyStr /\ Len(text.s) < maxLen THEN <<text>> \o rest ELSE rest

\* variant of the code: the homepage list is filtered first and cut afterwards
extract_features_from_homepage_filterfirst(soup) ==
    List(Take(KeepFeatures(soup.featureEls, HomepageFeatureMaxLen), HomepageFeatureScan))

extract_features_from_homepage(soup) ==
    List(KeepFeatures(Take(soup.featureEls, HomepageFeatureScan), HomepageFeatureMaxLen))

extract_homepage_content(soup) ==
    [title       |-> IF soup.title # None THEN soup.title ELSE EmptyStr,
     headline    |-> extract_text_by_selectors(soup, <<"h1", ".hero-title", ".main-headline">>),
     subheadline |-> extract_text_by_selectors(soup, <<"h2", ".hero-subtitle", ".main-subtitle">>),
     description |-> extract_text_by_selectors(soup, <<"p", ".description", ".intro">>),
     features    |-> extract_features_from_homepage(soup)]

RECURSIVE FirstMatchText(_, _)
\* the loop of extract_tier_name and extract_tier_price: the text of the
\* first selector that matches an element, empty or not
FirstMatchText(element, selectors) ==
    IF selectors = <<>> THEN EmptyStr
    ELSE LET e == SelectOne(element, Head(selectors))
         IN  IF e # None THEN Strip(e) ELSE FirstMatchText(element, Tail(selectors))

RECURSIVE FirstTextOf(_, _)
\* the text of the first selector that matches an element with text
FirstTextOf(element, selectors) ==
    IF selectors = <<>> THEN EmptyStr
    ELSE LET e == SelectOne(element, Head(selectors))
         IN  IF e # None /\ Strip(e) # EmptyStr THEN Strip(e)
             ELSE FirstTextOf(element, Tail(selectors))

\* variant of the code: an empty name falls through to the next selector
extract_tier_name_fallthrough(element) ==
    FirstTextOf(element, <<".tier-name", ".plan-name", "h3", "h4">>)

extract_tier_name(element) ==
    FirstMatchText(element, <<".tier-name", ".plan-name", "h3", "h4">>)

extract_tier_price(element) ==
    FirstMatchText(element, <<".price", ".cost", ".amount">>)

RECURSIVE PricingTiers(_)
PricingTiers(elements) ==
    IF elements = <<>> THEN <<>>
    ELSE LET tier_name == extract_tier_name(Head(elements))
             tier_price == extract_tier_price(Head(elements))
             rest == PricingTiers(Tail(elements))
         IN  IF tier_name # EmptyStr /\ tier_price # EmptyStr
             THEN <<[name |-> tier_name, price |-> tier_price]>> \o rest
             ELSE rest

RECURSIVE PricingTiers_nameonly(_)
\* variant of the code: a tier is kept as soon as its name is non-empty
PricingTiers_nameonly(elements) ==
    IF elements = <<>> THEN <<>>
    ELSE LET tier_name == extract_tier_name(Head(elements))
             tier_price == extract_tier_price(Head(elements))
             rest == PricingTiers_nameonly(Tail(elements))
         IN  IF tier_name # EmptyStr
             THEN <<[name |-> tier_name, price |-> tier_price]>> \o rest
             ELSE rest

extract_pricing_from_page_nameonly(soup) ==
    LET pricing_tiers == PricingTiers_nameonly(soup.pricingEls)
    IN  IF pricing_tiers # <<>> THEN List(pricing_tiers) ELSE None

extract_pricing_from_page(soup) ==
    LET pricing_tiers == PricingTiers(soup.pricingEls)
    IN  IF pricing_tiers # <<>> THEN List(pricing_tiers) ELSE None

\* variant of the code: the list of a features page is returned whole
extract_features_from_page_uncut(soup) ==
    LET features == KeepFeatures(soup.featureEls, PageFeatureMaxLen)
    IN  IF features # <<>> THEN List(features) ELSE None

extract_features_from_page(soup) ==
    LET features == KeepFeatures(soup.featureEls, PageFeatureMaxLen)
    IN  IF features # <<>> THEN List(Take(features, PageFeatureCap)) ELSE None

extract_about_content(soup) ==
    [description |-> extract_text_by_selectors(soup, <<".about-text", ".company-description", "p">>),
     mission     |-> extract_text_by_selectors(soup, <<".mission", ".vision">>),
     team_info   |-> extract_text_by_selectors(soup, <<".team", ".leadership">>)]

(***************************************************************************)
(* The web.  A site maps a path ("root" is the root URL, the others are    *)
(* the suffixes the scraper appends to it) to the outcome of requests.get: *)
(* raises says whether the call raises (a timeout, a connection error) or  *)
(* returns; a call that returns delivers the page the server holds with    *)
(* its status, whatever the status is (the code never looks at it).        *)
(***************************************************************************)
Outcome(raises, status, page) ==
    [raises |-> raises, status |-> status, page |-> page]

Raised(outcome) == outcome.raises # "no"

RECURSIVE scrape_pricing_loop(_, _)
scrape_pricing_loop(s, pricing_urls) ==
    IF pricing_urls = <<>> THEN None
    ELSE LET response == s[Head(pricing_urls)]
             pricing_data == extract_pricing_from_page(response.page)
         IN  IF ~Raised(response) /\ Truthy(pricing_data)
             THEN pricing_data
             ELSE scrape_pricing_loop(s, Tail(pricing_urls))

scrape_pricing_info(s) ==
    scrape_pricing_loop(s, <<"pricing", "plans", "price">>)

RECURSIVE scrape_features_loop(_, _)
scrape_features_loop(s, feature_urls) ==
    IF feature_urls = <<>> THEN None
    ELSE LET response == s[Head(feature_urls)]
             features == extract_features_from_page(response.page)
         IN  IF ~Raised(response) /\ Truthy(features)
             THEN features
             ELSE scrape_features_loop(s, Tail(feature_urls))

scrape_features_info(s) ==
    scrape_features_loop(s, <<"features", "products", "solutions">>)

scrape_about_info(s) ==
    LET response == s["about"]
    IN  IF Raised(response) THEN None ELSE extract_about_content(response.page)

\* f"Failed to scrape {url}: {str(e)}"
ScrapeError(s) == Str(<<"Failed to scrape ", s["root"].raises>>)

\* variant of the code: a sub-page fetch that raises is not caught by its scraper and
\* reaches the handler of the root fetch
scrape_company_comprehensive_uncaught(s) ==
    IF \E path \in DOMAIN s : Raised(s[path])
    THEN [error |-> ScrapeError(s)]
    ELSE [homepage |-> extract_homepage_content(s["root"].page),
          pricing  |-> scrape_pricing_info(s),
          features |-> scrape_features_info(s),
          about    |-> scrape_about_info(s)]

\* variant of the code: the homepage keys are taken as found, with no default
scrape_company_comprehensive_nodefault(s) ==
    IF Raised(s["root"])
    THEN [error |-> ScrapeError(s)]
    ELSE [homepage |-> [title       |-> s["root"].page.title,
                        headline    |-> SelectOne(s["root"].page.sel, "h1"),
                        subheadline |-> SelectOne(s["root"].page.sel, "h2"),
                        description |-> SelectOne(s["root"].page.sel, "p"),
                        features    |-> extract_features_from_homepage(s["root"].page)],
          pricing  |-> scrape_pricing_info(s),
          features |-> scrape_features_info(s),
          about    |-> scrape_about_info(s)]

scrape_company_comprehensive(s) ==
    IF Raised(s["root"])
    THEN [error |-> ScrapeError(s)]
    ELSE [homepage |-> extract_homepage_content(s["root"].page),
          pricing  |-> scrape_pricing_info(s),
          features |-> scrape_features_info(s),
          about    |-> scrape_about_info(s)]

(***************************************************************************)
(* The pages and sites the scraper is run on.                              *)
(***************************************************************************)
BlankPage == Page(None, NoSel, <<>>, <<>>)

HomeFull ==
    Page(Str(<<" ", "A", "c", "m", "e", "\n">>),
         ("h1" :> Str(<<"H", "i">>)) @@ ("h2" :> Str(<<" ", "S", "u", "b">>))
            @@ ("p" :> Str(<<"D">>)) @@ (".intro" :> Str(<<"I">>)),
         <<Str(<<"f", "1">>), Str(<<" ">>), Str(<<" ", "f", "2", " ">>)>>,
         <<>>)

\* the h1 and the h2 hold only whitespace: the next selectors are tried
HomeFallback ==
    Page(None,
         ("h1" :> Str(<<" ">>)) @@ (".hero-title" :> Str(<<" ", "T", " ">>))
            @@ ("h2" :> Str(<<"\n">>)),
         <<>>, <<>>)

\* the body a server sends with a 5xx status
ErrorPage ==
    Page(Str(<<"5", "0", "3">>), "h1" :> Str(<<"D", "o", "w", "n">>), <<>>, <<>>)

Tier(nameSel, name, priceSel, price) ==
    (nameSel :> Str(name)) @@ (priceSel :> Str(price))

SubPage ==
    [x \in {"pricing", "plans", "price", "features", "products",
            "solutions", "about"} |->
        CASE x = "pricing"   -> Page(None, NoSel, <<>>,
                                      <<Tier(".tier-name", <<"P", "r", "o">>, ".price", <<"$", "9">>),
                                        (".plan-name" :> Str(<<"F", "r", "e", "e">>))>>)
          [] x = "plans"     -> Page(None, NoSel, <<>>,
                                      <<Tier("h3", <<"T", "e", "a", "m">>, ".cost", <<"$", "5">>)>>)
          [] x = "price"     -> Page(None, NoSel, <<>>,
                                      <<Tier("h4", <<"M", "a", "x">>, ".amount", <<"$", "1">>)>>)
          [] x = "features"  -> Page(None, NoSel, <<Str(<<"a">>), Str(<<"b">>)>>, <<>>)
          [] x = "products"  -> Page(None, NoSel, <<Str(<<" ", "c">>)>>, <<>>)
          [] x = "solutions" -> Page(None, NoSel, <<Str(<<"d">>)>>, <<>>)
          [] x = "about"     -> Page(None, (".mission" :> Str(<<"M">>)) @@ ("p" :> Str(<<"W", "e">>)),
                                      <<>>, <<>>)]

SubPaths == DOMAIN SubPage

\* what a sub-page fetch can do: raise (with the page the server would have
\* sent), or return the page with data, or return a page with nothing in it
SubOutcomes(path) ==
    {Outcome("error", 200, SubPage[path]), Outcome("error", 404, BlankPage),
     Outcome("no", 200, SubPage[path]), Outcome("no", 404, BlankPage)}

RootOutcomes ==
    {Outcome("timeout", 0, BlankPage), Outcome("error", 0, BlankPage),
     Outcome("no", 500, ErrorPage), Outcome("no", 503, BlankPage),
     Outcome("no", 200, BlankPage), Outcome("no", 200, HomeFull),
     Outcome("no", 200, HomeFallback)}

Sites ==
    [root : RootOutcomes,
     pricing : SubOutcomes("pricing"), plans : SubOutcomes("plans"),
     price : SubOutcomes("price"), features : SubOutcomes("features"),
     products : SubOutcomes("products"), solutions : SubOutcomes("solutions"),
     about : SubOutcomes("about")]

(***************************************************************************)
(* The scraper run on one site.                                            *)
(***************************************************************************)
InitScrape ==
    /\ site \in Sites
    /\ record = NotRun
    /\ DiscoverIdle /\ PipelineIdle /\ AnalyzeIdle /\ TableIdle /\ CallIdle

Scrape ==
    /\ record = NotRun
    /\ record' = scrape_company_comprehensive(site)
    /\ UNCHANGED site
    /\ UNCHANGED notScrapeVars

NextScrape == Scrape

SpecScrape == InitScrape /\ [][NextScrape]_vars

(***************************************************************************)
(* Claims about the scraper (checked under SpecScrape).                    *)
(***************************************************************************)
Scraped == record # NotRun

RecordKeys == {"homepage", "pricing", "features", "about"}

RootFailed(s) == Raised(s.root) \/ s.root.status >= 500

\* C1: whenever the fetch of the root URL times out, raises or answers with a
\* 5xx status, the returned record has exactly one key, error.
C1_RootFailureGivesErrorOnly ==
    (Scraped /\ RootFailed(site)) => DOMAIN record = {"error"}

\* the site with the same pages where no sub-page fetch raises
NoSubFailure(s) ==
    [p \in DOMAIN s |-> IF p = "root" THEN s[p] ELSE [s[p] EXCEPT !.raises = "no"]]

FieldPaths(field) ==
    CASE field = "pricing"  -> <<"pricing", "plans", "price">>
      [] field = "features" -> <<"features", "products", "solutions">>
      [] field = "about"    -> <<"about">>

PathsOf(field) == {FieldPaths(field)[i] : i \in 1..Len(FieldPaths(field))}

AllFailed(s, field) == \A p \in PathsOf(field) : Raised(s[p])
NoneFailed(s, field) == \A p \in PathsOf(field) : ~Raised(s[p])

\* what a sub-page that was fetched yields for its field
Extracted(field, page) ==
    CASE field = "pricing"  -> extract_pricing_from_page(page)
      [] field = "features" -> extract_features_from_page(page)
      [] field = "about"    -> extract_about_content(page)

\* candidate i of the field was fetched without raising and yielded data (the
\* about page is taken as it is, data or not)
Usable(s, field, i) ==
    LET p == FieldPaths(field)[i]
    IN  /\ ~Raised(s[p])
        /\ field = "about" \/ Truthy(Extracted(field, s[p].page))

\* C2 as stated: with the root fetched, every combination of raising sub-page
\* fetches gives the four-key record, a field whose sub-pages all failed is
\* None, and the homepage and every other field are as if nothing had failed;
\* the error record is returned only when the root fetch fails.
C2_AsStated ==
    Scraped =>
        /\ ("error" \in DOMAIN record) => Raised(site.root)
        /\ ~Raised(site.root) =>
            /\ DOMAIN record = RecordKeys
            /\ record.homepage = scrape_company_comprehensive(NoSubFailure(site)).homepage
            /\ \A f \in RecordKeys \ {"homepage"} :
                IF AllFailed(site, f)
                THEN record[f] = None
                ELSE record[f] = scrape_company_comprehensive(NoSubFailure(site))[f]

\* C2 (amended): with the root fetched, every combination of raising sub-page
\* fetches gives the four-key record; a field whose sub-pages all failed is
\* None; the homepage and every field none of whose sub-pages failed are as if
\* nothing had failed; a field some of whose sub-pages failed holds the data of
\* the first candidate, in order, that was fetched without raising and yielded
\* data, None when there is none. The error record is returned only when the
\* root fetch fails.
C2_PartialFailureDegradesField ==
    Scraped =>
        /\ ("error" \in DOMAIN record) => Raised(site.root)
        /\ ~Raised(site.root) =>
            /\ DOMAIN record = RecordKeys
            /\ record.homepage = scrape_company_comprehensive(NoSubFailure(site)).homepage
            /\ \A f \in RecordKeys \ {"homepage"} :
                /\ AllFailed(site, f) => record[f] = None
                /\ NoneFailed(site, f) =>
                    record[f] = scrape_company_comprehensive(NoSubFailure(site))[f]
                /\ LET good == {i \in 1..Len(FieldPaths(f)) : Usable(site, f, i)}
                   IN  IF good = {} THEN record[f] = None
                       ELSE \E i \in good :
                            /\ \A j \in good : i <= j
                            /\ record[f] = Extracted(f, site[FieldPaths(f)[i]].page)

\* a run where the first pricing candidate raised, the second gave the data,
\* every features candidate raised and the about page was fetched
C2_Witness ==
    /\ Scraped
    /\ ~Raised(site.root)
    /\ Raised(site.pricing) /\ ~Raised(site.plans)
    /\ AllFailed(site, "features")
    /\ ~Raised(site.about)
    /\ record.pricing # None /\ record.features = None /\ record.about # None

HomeSelectors ==
    {"h1", ".hero-title", ".main-headline", "h2", ".hero-subtitle",
     ".main-subtitle", "p", ".description", ".intro"}

MatchesNothing(page) ==
    /\ page.title = None
    /\ DOMAIN page.sel \cap HomeSelectors = {}
    /\ page.featureEls = <<>>

\* C10: when the root fetch succeeds and the page matches none of the
\* selectors, the homepage has all five keys, the four texts empty strings and
\* features the empty list; none is absent or None.
C10_EmptyHomepageDefaults ==
    (Scraped /\ ~Raised(site.root) /\ MatchesNothing(site.root.page)) =>
        /\ "homepage" \in DOMAIN record
        /\ record.homepage = [title |-> EmptyStr, headline |-> EmptyStr,
                              subheadline |-> EmptyStr, description |-> EmptyStr,
                              features |-> List(<<>>)]

C10_Witness ==
    /\ Scraped /\ ~Raised(site.root) /\ MatchesNothing(site.root.page)
    /\ site.root.status = 200
    /\ record.homepage.headline = EmptyStr

(***************************************************************************)
(* Competitor discovery: the name heuristics.                              *)
(***************************************************************************)
\* dict.get(key, default)
Get(d, key, default) == IF key \in DOMAIN d THEN d[key] ELSE default

\* part.strip().replace('?', '').replace('"', '')
CleanPart(part) == Replace(Replace(Strip(part), <<"?">>, <<>>), <<"\"">>, <<>>)

RECURSIVE FirstOtherPart(_, _)
\* the first part of a title split on ' vs ' that, cleaned, is non-empty and is
\* not the company; None when there is none
FirstOtherPart(parts, original_company) ==
    IF parts = <<>> THEN None
    ELSE With(CleanPart(Head(parts)), LAMBDA part :
            IF part # EmptyStr /\ Lower(part) # Lower(original_company)
            THEN part
            ELSE FirstOtherPart(Tail(parts), original_company))

extract_competitor_name_from_title(title0, original_company) ==
    With(LET t1 == Replace(Replace(Replace(title0, <<" ", "-", " ">>, <<" ">>), <<" ", "|", " ">>, <<" ">>),
                      <<" ", "v", "s", " ">>, <<" ">>)
         IN  Replace(Replace(t1, <<" ", "v", "s", " ">>, <<" ">>),
                     <<" ", "v", "s", ".", " ">>, <<" ">>),
         LAMBDA title :
            With(IF Contains(Lower(title), Str(<<" ", "v", "s", " ">>))
                 THEN FirstOtherPart(SplitOn(title, <<" ", "v", "s", " ">>), original_company)
                 ELSE None,
                 LAMBDA part :
                    IF part # None THEN part
                    ELSE With(Split(title), LAMBDA words :
                            IF words # <<>> THEN Strip(Join(Take(words, 2), <<" ">>))
                            ELSE EmptyStr)))

\* main.py
extract_company_name_from_title(title0) ==
    With(Split(Replace(Replace(Replace(title0, <<" ", "-", " ">>, <<" ">>),
                               <<" ", "|", " ">>, <<" ">>),
                       <<" ", "v", "s", " ">>, <<" ">>)),
         LAMBDA words :
            IF words # <<>> THEN Strip(Join(Take(words, 2), <<" ">>)) ELSE EmptyStr)

Candidate(name, url, source) == [name |-> name, url |-> url, source |-> source]

\* f"https://www.{competitor_name.lower().replace(' ', '')}.com"
GuessedUrl(competitor_name) ==
    Str(<<"h", "t", "t", "p", "s", ":", "/", "/", "w", "w", "w", ".">> \o Replace(Lower(competitor_name), <<" ">>, <<>>).s \o <<".", "c", "o", "m">>)

RECURSIVE QuestionParts(_, _)
QuestionParts(parts, cname) ==
    IF parts = <<>> THEN <<>>
    ELSE With(CleanPart(Head(parts)), LAMBDA competitor_name :
            IF competitor_name # EmptyStr /\ Lower(competitor_name) # Lower(cname)
            THEN <<Candidate(competitor_name, GuessedUrl(competitor_name),
                             "people_also_ask")>> \o QuestionParts(Tail(parts), cname)
            ELSE QuestionParts(Tail(parts), cname))

\* the same in both revisions
extract_competitors_from_question(question, cname) ==
    IF Contains(Lower(question), Str(<<" ", "v", "s", " ">>))
    THEN QuestionParts(SplitOn(question, <<" ", "v", "s", " ">>), cname)
    ELSE <<>>

(***************************************************************************)
(* Competitor discovery: one search request.  A response is what           *)
(* requests.get and response.json() give: the call raises, or the body is  *)
(* no JSON, or it is the JSON object results.  What one request            *)
(* contributes is [competitors, raised]: the candidates appended to the    *)
(* list and whether an exception left the code.                            *)
(***************************************************************************)
Got(cs, raised) == [competitors |-> cs, raised |-> raised]

\* an organic result or a search item, competitive_research.py
ResultCandidates(result, cname, source) ==
    LET title == Get(result, "title", EmptyStr)
        url == Get(result, "link", EmptyStr)
    IN  IF title = None THEN Got(<<>>, TRUE)      \* None has no lower()
        ELSE IF ~Contains(Lower(title), Lower(cname)) /\ Truthy(url)
        THEN With(extract_competitor_name_from_title(title, cname),
                  LAMBDA competitor_name :
                    IF competitor_name # EmptyStr
                    THEN Got(<<Candidate(competitor_name, url, source)>>, FALSE)
                    ELSE Got(<<>>, FALSE))
        ELSE Got(<<>>, FALSE)

\* an organic result or a search item, main.py
ResultCandidates_main(result, cname, source) ==
    LET title == Get(result, "title", EmptyStr)
        url == Get(result, "link", EmptyStr)
    IN  IF title = None THEN Got(<<>>, TRUE)
        ELSE IF ~Contains(Lower(title), Lower(cname)) /\ Truthy(url)
        THEN With(extract_company_name_from_title(title),
                  LAMBDA competitor_name :
                    IF competitor_name # EmptyStr /\ competitor_name # cname
                    THEN Got(<<Candidate(competitor_name, url, source)>>, FALSE)
                    ELSE Got(<<>>, FALSE))
        ELSE Got(<<>>, FALSE)

RECURSIVE ResultsLoop(_, _, _, _)
\* for result in results[...]: the candidates appended until an exception
ResultsLoop(items, cname, source, r) ==
    IF items = <<>> THEN Got(<<>>, FALSE)
    ELSE With(IF r = "main"
              THEN ResultCandidates_main(Head(items), cname, source)
              ELSE ResultCandidates(Head(items), cname, source),
              LAMBDA one :
                IF one.raised THEN one
                ELSE With(ResultsLoop(Tail(items), cname, source, r), LAMBDA rest :
                        Got(one.competitors \o rest.competitors, rest.raised)))

\* a people_also_ask entry
QuestionCandidates(paa, cname, r) ==
    LET question == Get(paa, "question", EmptyStr)
    IN  IF question = None THEN Got(<<>>, TRUE)
        ELSE IF \/ Contains(Lower(question), Str(<<"v", "s">>))
                \/ r # "main" /\ Contains(Lower(question), Str(<<"a", "l", "t", "e", "r", "n", "a", "t", "i", "v", "e">>))
        THEN Got(extract_competitors_from_question(question, cname), FALSE)
        ELSE Got(<<>>, FALSE)

RECURSIVE QuestionsLoop(_, _, _)
QuestionsLoop(paas, cname, r) ==
    IF paas = <<>> THEN Got(<<>>, FALSE)
    ELSE With(QuestionCandidates(Head(paas), cname, r), LAMBDA one :
            IF one.raised THEN one
            ELSE With(QuestionsLoop(Tail(paas), cname, r), LAMBDA rest :
                    Got(one.competitors \o rest.competitors, rest.raised)))

\* the try block of discover_with_serpapi (competitive_research.py)
SerpapiTry(response, cname) ==
    IF response.kind # "json" THEN Got(<<>>, TRUE)
    ELSE With(IF "organic_results" \in DOMAIN response.results
              THEN ResultsLoop(response.results.organic_results, cname, "serpapi",
                               "comprehensive")
              ELSE Got(<<>>, FALSE),
              LAMBDA organic :
                IF organic.raised THEN organic
                ELSE With(IF "people_also_ask" \in DOMAIN response.results
                          THEN QuestionsLoop(response.results.people_also_ask, cname,
                                             "comprehensive")
                          ELSE Got(<<>>, FALSE),
                          LAMBDA asked :
                            Got(organic.competitors \o asked.competitors, asked.raised)))

\* variant of the code: no try/except around the request, the exception leaves the function
discover_with_serpapi_uncaught(response, cname) ==
    With(SerpapiTry(response, cname), LAMBDA body :
        IF body.raised THEN Got(<<>>, TRUE) ELSE body)

\* except Exception: pass; return competitors
discover_with_serpapi(response, cname) ==
    Got(SerpapiTry(response, cname).competitors, FALSE)

\* the try block of discover_with_google_search (competitive_research.py)
GoogleTry(response, cname) ==
    IF response.kind # "json" THEN Got(<<>>, TRUE)
    ELSE IF "items" \in DOMAIN response.results
         THEN ResultsLoop(response.results.items, cname, "google_search", "comprehensive")
         ELSE Got(<<>>, FALSE)

discover_with_google_search(response, cname) ==
    Got(GoogleTry(response, cname).competitors, FALSE)

\* one turn of the query loop of main.py's discover_with_serpapi: the top 3
\* organic results and the first 2 questions; except: continue
discover_with_serpapi_main(response, cname) ==
    IF response.kind # "json" THEN Got(<<>>, FALSE)
    ELSE With(IF "organic_results" \in DOMAIN response.results
              THEN ResultsLoop(Take(response.results.organic_results, 3), cname,
                               "serpapi", "main")
              ELSE Got(<<>>, FALSE),
              LAMBDA organic :
                IF organic.raised THEN Got(organic.competitors, FALSE)
                ELSE With(IF "people_also_ask" \in DOMAIN response.results
                          THEN QuestionsLoop(Take(response.results.people_also_ask, 2),
                                             cname, "main")
                          ELSE Got(<<>>, FALSE),
                          LAMBDA asked :
                            Got(organic.competitors \o asked.competitors, FALSE)))

\* one turn of the query loop of main.py's discover_with_google_search
discover_with_google_search_main(response, cname) ==
    IF response.kind # "json" THEN Got(<<>>, FALSE)
    ELSE IF "items" \in DOMAIN response.results
         THEN Got(ResultsLoop(response.results.items, cname, "google_search",
                              "main").competitors, FALSE)
         ELSE Got(<<>>, FALSE)

(***************************************************************************)
(* Competitor discovery: the two revisions, one action per search request. *)
(***************************************************************************)
SerpapiQueries == 3
GoogleQueries == 2
EnoughCandidates == 5
BackupThreshold == 3
MaxCompetitors == 5
GoogleQueries_main == 3
SerpapiQueries_main == 2
EnoughWithGoogle_main == 3
EarlyReturnCap_main == 5

RECURSIVE UniqueLoop_nocap(_, _, _)
\* variant of the code: duplicates removed, the list not truncated
UniqueLoop_nocap(list, unique_competitors, seen_names) ==
    IF list = <<>> THEN unique_competitors
    ELSE LET comp == Head(list)
         IN  IF comp.name \notin seen_names
             THEN UniqueLoop_nocap(Tail(list), Append(unique_competitors, comp),
                                   seen_names \cup {comp.name})
             ELSE UniqueLoop_nocap(Tail(list), unique_competitors, seen_names)

RECURSIVE UniqueLoop(_, _, _)
UniqueLoop(list, unique_competitors, seen_names) ==
    IF list = <<>> THEN unique_competitors
    ELSE LET comp == Head(list)
         IN  IF comp.name \notin seen_names /\ Len(unique_competitors) < MaxCompetitors
             THEN UniqueLoop(Tail(list), Append(unique_competitors, comp),
                             seen_names \cup {comp.name})
             ELSE UniqueLoop(Tail(list), unique_competitors, seen_names)

UniqueCompetitors_nocap(list) == UniqueLoop_nocap(list, <<>>, {})

\* variant of the code: of the candidates with one name the last is kept
UniqueCompetitors_last(list) ==
    LET kept == UniqueLoop(list, <<>>, {})
    IN  [k \in 1..Len(kept) |->
            list[CHOOSE i \in 1..Len(list) :
                    /\ list[i].name = kept[k].name
                    /\ \A j \in (i + 1)..Len(list) : list[j].name # kept[k].name]]

\* "Remove duplicates and return top competitors"
UniqueCompetitors(list) == UniqueLoop(list, <<>>, {})

\* variant of the code: no placeholder entries
Fallback_none == <<>>

\* main.py: the list returned when nothing was found
Fallback ==
    <<Candidate(Str(<<"C", "o", "m", "p", "e", "t", "i", "t", "o", "r", " ", "1">>), Str(<<"h", "t", "t", "p", "s", ":", "/", "/", "e", "x", "a", "m", "p", "l", "e", "1", ".", "c", "o", "m">>), "fallback"),
      Candidate(Str(<<"C", "o", "m", "p", "e", "t", "i", "t", "o", "r", " ", "2">>), Str(<<"h", "t", "t", "p", "s", ":", "/", "/", "e", "x", "a", "m", "p", "l", "e", "2", ".", "c", "o", "m">>), "fallback"),
      Candidate(Str(<<"C", "o", "m", "p", "e", "t", "i", "t", "o", "r", " ", "3">>), Str(<<"h", "t", "t", "p", "s", ":", "/", "/", "e", "x", "a", "m", "p", "l", "e", "3", ".", "c", "o", "m">>), "fallback")>>

\* an entry of requests: which query of which backend, and the response it got
Request(backend, query, response) ==
    [backend |-> backend, query |-> query, response |-> response]

\* variant of the code: the engine id is not looked at
GoogleReady_keyonly == creds.google_api_key

GoogleReady == creds.google_api_key /\ creds.google_cse_id

\* variant of the code: the SerpAPI loop without "if len(competitors) >= 5: break"
SerpapiQuery_nostop(Responses) ==
    /\ rev = "comprehensive" /\ dpc = "serpapi"
    /\ creds.serpapi_key
    /\ \E response \in Responses :
      \E r \in {discover_with_serpapi(response, company_name)} :
            /\ requests' = Append(requests, Request("serpapi", qi, response))
            /\ raw_competitors' = raw_competitors \o r.competitors
            /\ IF qi = SerpapiQueries
               THEN dpc' = "google" /\ qi' = 1
               ELSE dpc' = dpc /\ qi' = qi + 1
    /\ UNCHANGED <<rev, creds, company_name, competitors>>
    /\ UNCHANGED notDiscoverVars

\* competitive_research.py: one turn of the SerpAPI loop
SerpapiQuery(Responses) ==
    /\ rev = "comprehensive" /\ dpc = "serpapi"
    /\ creds.serpapi_key
    /\ \E response \in Responses :
      \E r \in {discover_with_serpapi(response, company_name)} :
        LET extended == raw_competitors \o r.competitors
        IN  /\ requests' = Append(requests, Request("serpapi", qi, response))
            /\ IF r.raised
               THEN \* except Exception as e: st.warning(...)
                    /\ raw_competitors' = raw_competitors
                    /\ dpc' = "google" /\ qi' = 1
               ELSE /\ raw_competitors' = extended
                    /\ IF Len(extended) >= EnoughCandidates \/ qi = SerpapiQueries
                       THEN dpc' = "google" /\ qi' = 1
                       ELSE dpc' = dpc /\ qi' = qi + 1
    /\ UNCHANGED <<rev, creds, company_name, competitors>>
    /\ UNCHANGED notDiscoverVars

SerpapiSkip ==
    /\ rev = "comprehensive" /\ dpc = "serpapi"
    /\ ~creds.serpapi_key
    /\ dpc' = "google"
    /\ UNCHANGED <<rev, creds, company_name, qi, raw_competitors, requests, competitors>>
    /\ UNCHANGED notDiscoverVars

\* competitive_research.py: one turn of the Google Custom Search loop; the
\* condition of the if is looked at before the first turn only
GoogleQuery(Responses) ==
    /\ rev = "comprehensive" /\ dpc = "google"
    /\ qi > 1 \/ (Len(raw_competitors) < BackupThreshold /\ GoogleReady)
    /\ \E response \in Responses :
      \E r \in {discover_with_google_search(response, company_name)} :
        LET extended == raw_competitors \o r.competitors
        IN  /\ requests' = Append(requests, Request("google", qi, response))
            /\ IF r.raised
               THEN /\ raw_competitors' = raw_competitors
                    /\ dpc' = "dedupe" /\ qi' = 1
               ELSE /\ raw_competitors' = extended
                    /\ IF Len(extended) >= EnoughCandidates \/ qi = GoogleQueries
                       THEN dpc' = "dedupe" /\ qi' = 1
                       ELSE dpc' = dpc /\ qi' = qi + 1
    /\ UNCHANGED <<rev, creds, company_name, competitors>>
    /\ UNCHANGED notDiscoverVars

GoogleSkip ==
    /\ rev = "comprehensive" /\ dpc = "google" /\ qi = 1
    /\ ~(Len(raw_competitors) < BackupThreshold /\ GoogleReady)
    /\ dpc' = "dedupe"
    /\ UNCHANGED <<rev, creds, company_name, qi, raw_competitors, requests, competitors>>
    /\ UNCHANGED notDiscoverVars

\* competitive_research.py: lines 176-185
ReturnUnique ==
    /\ rev = "comprehensive" /\ dpc = "dedupe"
    /\ competitors' = UniqueCompetitors(raw_competitors)
    /\ dpc' = "done"
    /\ UNCHANGED <<rev, creds, company_name, qi, raw_competitors, requests>>
    /\ UNCHANGED notDiscoverVars

\* main.py: one turn of the query loop of discover_with_google_search; after
\* the last one, the early return of discover_competitors
GoogleQuery_main(Responses) ==
    /\ rev = "main" /\ dpc = "google"
    /\ GoogleReady
    /\ \E response \in Responses :
      \E r \in {discover_with_google_search_main(response, company_name)} :
        LET extended == raw_competitors \o r.competitors
        IN  /\ requests' = Append(requests, Request("google", qi, response))
            /\ raw_competitors' = extended
            /\ IF qi < GoogleQueries_main
               THEN dpc' = dpc /\ qi' = qi + 1 /\ UNCHANGED competitors
               ELSE IF Len(extended) >= EnoughWithGoogle_main
                    THEN /\ competitors' = Take(extended, EarlyReturnCap_main)
                         /\ dpc' = "done" /\ qi' = 1
                    ELSE dpc' = "serpapi" /\ qi' = 1 /\ UNCHANGED competitors
    /\ UNCHANGED <<rev, creds, company_name>>
    /\ UNCHANGED notDiscoverVars

GoogleSkip_main ==
    /\ rev = "main" /\ dpc = "google"
    /\ ~GoogleReady
    /\ dpc' = "serpapi"
    /\ UNCHANGED <<rev, creds, company_name, qi, raw_competitors, requests, competitors>>
    /\ UNCHANGED notDiscoverVars

\* main.py: one turn of the query loop of discover_with_serpapi
SerpapiQuery_main(Responses) ==
    /\ rev = "main" /\ dpc = "serpapi"
    /\ qi > 1 \/ (creds.serpapi_key /\ Len(raw_competitors) < EnoughWithGoogle_main)
    /\ \E response \in Responses :
      \E r \in {discover_with_serpapi_main(response, company_name)} :
            /\ requests' = Append(requests, Request("serpapi", qi, response))
            /\ raw_competitors' = raw_competitors \o r.competitors
            /\ IF qi < SerpapiQueries_main
               THEN dpc' = dpc /\ qi' = qi + 1
               ELSE dpc' = "dedupe" /\ qi' = 1
    /\ UNCHANGED <<rev, creds, company_name, competitors>>
    /\ UNCHANGED notDiscoverVars

SerpapiSkip_main ==
    /\ rev = "main" /\ dpc = "serpapi" /\ qi = 1
    /\ ~(creds.serpapi_key /\ Len(raw_competitors) < EnoughWithGoogle_main)
    /\ dpc' = "dedupe"
    /\ UNCHANGED <<rev, creds, company_name, qi, raw_competitors, requests, competitors>>
    /\ UNCHANGED notDiscoverVars

\* main.py: lines 150-167
ReturnUnique_main ==
    /\ rev = "main" /\ dpc = "dedupe"
    /\ competitors' = IF raw_competitors = <<>> THEN Fallback
                      ELSE UniqueCompetitors(raw_competitors)
    /\ dpc' = "done"
    /\ UNCHANGED <<rev, creds, company_name, qi, raw_competitors, requests>>
    /\ UNCHANGED notDiscoverVars

(***************************************************************************)
(* The responses the search backends give.                                 *)
(***************************************************************************)
Acme == Str(<<"A", "c", "m", "e">>)

Item(title, link) == [title |-> title, link |-> link]

RaiseResponse == [kind |-> "raise"]
NotJsonResponse == [kind |-> "notjson"]
Json(results) == [kind |-> "json", results |-> results]

\* a JSON answer with none of the keys the code reads
SerpError == Json([error |-> Str(<<"I", "n", "v", "a", "l", "i", "d", " ", "A", "P", "I", " ", "k", "e", "y">>)])

SerpA ==
    Json([organic_results |->
            <<Item(Str(<<"B", "e", "t", "a", " ", "I", "n", "c", " ", "-", " ", "C", "R", "M">>), Str(<<"u", "1">>)),
              Item(Str(<<"A", "c", "m", "e", " ", "v", "s", " ", "B", "e", "t", "a">>), Str(<<"u", "2">>)),
              Item(Str(<<"G", "a", "m", "m", "a">>), Str(<<"u", "3">>))>>,
          people_also_ask |->
            <<[question |-> Str(<<"B", "e", "t", "a", " ", "v", "s", " ", "G", "a", "m", "m", "a", "?">>)]>>])

SerpB ==
    Json([organic_results |->
            <<Item(Str(<<"b", "e", "t", "a", " ", "i", "n", "c", " ", "|", " ", "c", "r", "m">>), Str(<<"u", "4">>)),
              Item(Str(<<"B", "e", "t", "a", " ", "I", "n", "c", " ", "R", "e", "v", "i", "e", "w", "s">>), Str(<<"u", "5">>)),
              Item(Str(<<"D", "e", "l", "t", "a", " ", "C", "o">>), EmptyStr),
              Item(Str(<<"D", "e", "l", "t", "a", " ", "C", "o">>), Str(<<"u", "6">>))>>,
          people_also_ask |->
            <<[question |-> Str(<<"i", "s", " ", "A", "C", "M", "E", " ", "v", "s", " ", "Z", "e", "t", "a">>)],
              [question |-> Str(<<"A", "n", " ", "a", "l", "t", "e", "r", "n", "a", "t", "i", "v", "e", "?">>)]>>])

\* the second organic result has a null title
SerpBad ==
    Json([organic_results |->
            <<Item(Str(<<"G", "a", "m", "m", "a">>), Str(<<"u", "3">>)),
              Item(None, Str(<<"u", "7">>)),
              Item(Str(<<"E", "p", "s", "i", "l", "o", "n">>), Str(<<"u", "8">>))>>])

SerpOne == Json([organic_results |-> <<Item(Str(<<"E", "p", "s", "i", "l", "o", "n">>), Str(<<"u", "8">>))>>])

SerpResponses == {RaiseResponse, NotJsonResponse, SerpError, SerpA, SerpB, SerpBad, SerpOne}

GoogleA ==
    Json([items |->
            <<Item(Str(<<"B", "e", "t", "a", " ", "I", "n", "c", " ", "-", " ", "C", "R", "M">>), Str(<<"u", "1">>)),
              Item(Str(<<"B", "e", "t", "a", " ", "I", "n", "c", " ", "R", "e", "v", "i", "e", "w", "s">>), Str(<<"u", "5">>)),
              Item(Str(<<"G", "a", "m", "m", "a">>), Str(<<"u", "3">>))>>])

GoogleB ==
    Json([items |->
            <<Item(Str(<<"Z", "e", "t", "a", " ", "v", "s", " ", "E", "t", "a">>), Str(<<"u", "9">>)),
              Item(None, Str(<<"u", "7">>)),
              Item(Str(<<"E", "p", "s", "i", "l", "o", "n">>), Str(<<"u", "8">>))>>])

GoogleC ==
    Json([items |->
            <<Item(Str(<<"T", "h", "e", "t", "a">>), Str(<<"u", "6">>)),
              [link |-> Str(<<"u", "2">>)],
              Item(Str(<<"D", "e", "l", "t", "a", " ", "C", "o">>), Str(<<"u", "4">>))>>])

GoogleResponses == {RaiseResponse, Json([error |-> Str(<<"I", "n", "v", "a", "l", "i", "d", " ", "A", "P", "I", " ", "k", "e", "y">>)]), GoogleA, GoogleB, GoogleC}

Credentials ==
    [serpapi_key : BOOLEAN, google_api_key : BOOLEAN, google_cse_id : BOOLEAN]

(***************************************************************************)
(* Discovery run on its own, in either revision.                           *)
(***************************************************************************)
InitDiscover ==
    /\ rev \in {"comprehensive", "main"}
    /\ creds \in Credentials
    /\ company_name = Acme
    /\ dpc = IF rev = "main" THEN "google" ELSE "serpapi"
    /\ qi = 1
    /\ raw_competitors = <<>>
    /\ requests = <<>>
    /\ competitors = NotRun
    /\ ScrapeIdle /\ PipelineIdle /\ AnalyzeIdle /\ TableIdle /\ CallIdle

NextDiscover ==
    \/ SerpapiQuery(SerpResponses)
    \/ SerpapiSkip
    \/ GoogleQuery(GoogleResponses)
    \/ GoogleSkip
    \/ ReturnUnique
    \/ GoogleQuery_main(GoogleResponses)
    \/ GoogleSkip_main
    \/ SerpapiQuery_main(SerpResponses)
    \/ SerpapiSkip_main
    \/ ReturnUnique_main

SpecDiscover == InitDiscover /\ [][NextDiscover]_vars

(***************************************************************************)
(* Claims about discovery (checked under SpecDiscover).                    *)
(***************************************************************************)
Discovered == dpc = "done"

Names(list) == {list[i].name : i \in 1..Len(list)}

\* C3: in both revisions, on every return path, the list discovery returns has
\* at most 5 entries.
C3_AtMostFive ==
    Discovered => Len(competitors) <= 5

\* runs in which the cap decided: more than 5 distinct names were collected
C3_Witness ==
    /\ Discovered /\ rev = "comprehensive"
    /\ Len(competitors) = 5
    /\ Cardinality(Names(raw_competitors)) > 5

\* C4: in both revisions, on every return path, no two entries of the returned
\* list have case-sensitively equal names.
C4_UniqueNames ==
    Discovered =>
        \A i, j \in 1..Len(competitors) :
            i # j => competitors[i].name # competitors[j].name

\* what the request's response yields before any exception, and whether the
\* request raised or its response was unusable
Yield(req) ==
    IF req.backend = "serpapi"
    THEN SerpapiTry(req.response, company_name)
    ELSE GoogleTry(req.response, company_name)

RequestFailed(req) == req.response.kind # "json"

RECURSIVE TotalAfter(_)
\* the number of raw candidates after the k-th request
TotalAfter(k) ==
    IF k = 0 THEN 0 ELSE TotalAfter(k - 1) + Len(Yield(requests[k]).competitors)

Last(backend) ==
    LET ks == {k \in 1..Len(requests) : requests[k].backend = backend}
    IN  IF ks = {} THEN 0 ELSE CHOOSE k \in ks : \A j \in ks : j <= k

\* the request that follows the k-th one under the normal rules, whatever the
\* k-th one gave: the next query of the same backend unless the backend's
\* queries are used up or 5 candidates are there
FollowedUp(k, backend, queries) ==
    (requests[k].backend = backend /\ requests[k].query < queries
        /\ TotalAfter(k) < EnoughCandidates) =>
        IF k < Len(requests)
        THEN requests[k + 1].backend = backend /\ requests[k + 1].query = requests[k].query + 1
        ELSE dpc = backend /\ qi = requests[k].query + 1

\* C5: discover_competitors_comprehensive never raises because of a backend:
\* whatever requests raise or answer unusably, it returns a list, the
\* candidates of the successful requests are kept, the later queries and the
\* other backend are tried under the normal rules, and if every request fails
\* the list is empty.
C5_BackendFailuresTolerated ==
    rev = "comprehensive" =>
        /\ dpc \in {"serpapi", "google", "dedupe", "done"}
        /\ Discovered => competitors = UniqueCompetitors(raw_competitors)
        /\ \A k \in 1..Len(requests) :
            /\ ~RequestFailed(requests[k]) =>
                \A i \in 1..Len(Yield(requests[k]).competitors) :
                    \E j \in 1..Len(raw_competitors) :
                        raw_competitors[j] = Yield(requests[k]).competitors[i]
            /\ FollowedUp(k, "serpapi", SerpapiQueries)
            /\ FollowedUp(k, "google", GoogleQueries)
        /\ (creds.serpapi_key /\ dpc # "serpapi") => Last("serpapi") > 0
        /\ (dpc \in {"dedupe", "done"} /\ TotalAfter(Last("serpapi")) < BackupThreshold
                /\ creds.google_api_key /\ creds.google_cse_id) =>
            \E k \in 1..Len(requests) :
                requests[k].backend = "google" /\ requests[k].query = 1
        /\ (Discovered /\ \A k \in 1..Len(requests) : RequestFailed(requests[k])) =>
            competitors = <<>>

\* a run where a request raised, the next query and the other backend were
\* still tried and an earlier candidate was returned
C5_Witness ==
    /\ Discovered /\ rev = "comprehensive"
    /\ Len(requests) = 5
    /\ requests[1].response = SerpOne
    /\ requests[2].response = RaiseResponse
    /\ requests[3].backend = "serpapi" /\ requests[3].response = NotJsonResponse
    /\ requests[4].backend = "google" /\ requests[4].response = RaiseResponse
    /\ requests[5].backend = "google" /\ requests[5].response = GoogleC
    /\ competitors # <<>> /\ competitors[1].name \in Names(Yield(requests[1]).competitors)

(***************************************************************************)
(* main(): discovery, then the scraping phase.  A dict whose keys are      *)
(* computed is the sequence of its items in insertion order.               *)
(***************************************************************************)
EmptyDict == <<>>

DictKeys(d) == {d[i].key : i \in 1..Len(d)}

RECURSIVE WithoutKey(_, _)
WithoutKey(d, key) ==
    IF d = <<>> THEN <<>>
    ELSE IF Head(d).key = key THEN WithoutKey(Tail(d), key)
    ELSE <<Head(d)>> \o WithoutKey(Tail(d), key)

\* variant of the code: a key that is assigned again moves to the end
DictSet_last(d, key, value) ==
    Append(WithoutKey(d, key), [key |-> key, value |-> value])

\* d[key] = value
DictSet(d, key, value) ==
    IF key \in DictKeys(d)
    THEN [i \in 1..Len(d) |-> IF d[i].key = key THEN [key |-> key, value |-> value] ELSE d[i]]
    ELSE Append(d, [key |-> key, value |-> value])

ScrapeLimit == 5
ScrapeLimit_main == 3

\* the target's site is scraped, then scrape_competitors* starts
ScrapeTarget(CompanySites) ==
    /\ mpc = "discover" /\ dpc = "done"
    /\ \E s \in CompanySites :
        target_company_data' = scrape_company_comprehensive(s)
    /\ competitor_data' = EmptyDict
    /\ si' = 1
    /\ mpc' = "scrape_competitors"
    /\ UNCHANGED notPipelineVars

\* competitive_research.py: one turn of the loop of
\* scrape_competitors_comprehensive.  scrape_company_comprehensive catches
\* every exception itself, so the except branch with the placeholder record
\* is never taken.
ScrapeCompetitor(CompanySites) ==
    /\ rev = "comprehensive" /\ mpc = "scrape_competitors"
    /\ si <= Len(Take(competitors, ScrapeLimit))
    /\ \E s \in CompanySites :
        competitor_data' = DictSet(competitor_data, competitors[si].name,
                                   scrape_company_comprehensive(s))
    /\ si' = si + 1
    /\ UNCHANGED <<mpc, target_company_data>>
    /\ UNCHANGED notPipelineVars

\* variant of the code: line 94 left out, the mapping holds the competitors only
AddTarget_skip ==
    /\ rev = "comprehensive" /\ mpc = "scrape_competitors"
    /\ si > Len(Take(competitors, ScrapeLimit))
    /\ mpc' = "analyze"
    /\ UNCHANGED <<si, target_company_data, competitor_data>>
    /\ UNCHANGED notPipelineVars

\* competitive_research.py, main(): competitor_data[company_name] = target_company_data
AddTarget ==
    /\ rev = "comprehensive" /\ mpc = "scrape_competitors"
    /\ si > Len(Take(competitors, ScrapeLimit))
    /\ competitor_data' = DictSet(competitor_data, company_name, target_company_data)
    /\ mpc' = "analyze"
    /\ UNCHANGED <<si, target_company_data>>
    /\ UNCHANGED notPipelineVars

\* main.py: one turn of the loop of scrape_competitors
ScrapeCompetitor_main(CompanySites) ==
    /\ rev = "main" /\ mpc = "scrape_competitors"
    /\ si <= Len(Take(competitors, ScrapeLimit_main))
    /\ \E s \in CompanySites :
        competitor_data' = DictSet(competitor_data, competitors[si].name,
                                   scrape_company_comprehensive(s))
    /\ si' = si + 1
    /\ UNCHANGED <<mpc, target_company_data>>
    /\ UNCHANGED notPipelineVars

\* main.py: scrape_competitors returns; the target's record stays in company_data
ReturnCompetitorData_main ==
    /\ rev = "main" /\ mpc = "scrape_competitors"
    /\ si > Len(Take(competitors, ScrapeLimit_main))
    /\ mpc' = "analyze"
    /\ UNCHANGED <<si, target_company_data, competitor_data>>
    /\ UNCHANGED notPipelineVars

\* a site that cannot be reached and a site that answers every page
DownSite ==
    [p \in {"root"} \cup SubPaths |->
        IF p = "root" THEN Outcome("error", 0, BlankPage)
        ELSE Outcome("error", 404, BlankPage)]

UpSite ==
    [p \in {"root"} \cup SubPaths |->
        IF p = "root" THEN Outcome("no", 200, HomeFull)
        ELSE Outcome("no", 200, SubPage[p])]

PipelineSites == {DownSite, UpSite}
PipelineSerpResponses == {RaiseResponse, SerpA, SerpB}
PipelineGoogleResponses == {RaiseResponse, GoogleA, GoogleC}

InitPipeline ==
    /\ rev \in {"comprehensive", "main"}
    /\ creds \in Credentials
    /\ company_name = Acme
    /\ dpc = IF rev = "main" THEN "google" ELSE "serpapi"
    /\ qi = 1
    /\ raw_competitors = <<>>
    /\ requests = <<>>
    /\ competitors = NotRun
    /\ mpc = "discover" /\ si = 1
    /\ target_company_data = NotRun /\ competitor_data = NotRun
    /\ ScrapeIdle /\ AnalyzeIdle /\ TableIdle /\ CallIdle

NextPipeline ==
    \/ SerpapiQuery(PipelineSerpResponses)
    \/ SerpapiSkip
    \/ GoogleQuery(PipelineGoogleResponses)
    \/ GoogleSkip
    \/ ReturnUnique
    \/ GoogleQuery_main(PipelineGoogleResponses)
    \/ GoogleSkip_main
    \/ SerpapiQuery_main(PipelineSerpResponses)
    \/ SerpapiSkip_main
    \/ ReturnUnique_main
    \/ ScrapeTarget(PipelineSites)
    \/ ScrapeCompetitor(PipelineSites)
    \/ AddTarget
    \/ ScrapeCompetitor_main(PipelineSites)
    \/ ReturnCompetitorData_main

SpecPipeline == InitPipeline /\ [][NextPipeline]_vars

(***************************************************************************)
(* Claims about the scraping phase (checked under SpecPipeline).           *)
(***************************************************************************)
ScrapingDone == mpc = "analyze"

\* the target has a record: an entry of competitor_data in
\* competitive_research.py, the variable company_data in main.py
TargetHasRecord ==
    IF rev = "main" THEN target_company_data # NotRun
    ELSE company_name \in DictKeys(competitor_data)

\* C6: at the end of the scraping phase, in both revisions, there is a record
\* for the target and an entry of the mapping for every competitor discovery
\* returned, whether its scrape failed or not.
C6_EveryCompanyHasRecord ==
    ScrapingDone =>
        /\ TargetHasRecord
        /\ \A i \in 1..Len(competitors) :
            competitors[i].name \in DictKeys(competitor_data)

(***************************************************************************)
(* The analysis runner of competitive_research.py: six chat-completion     *)
(* calls, one per prompt.                                                  *)
(***************************************************************************)
\* the keys of analysis_prompts, in the order of the dict
AnalysisKinds ==
    <<"overview", "structured_analysis", "table_data", "pricing", "features", "swot">>

Section(label, value) == [label |-> label, value |-> value]

RECURSIVE CompetitorSections(_)
CompetitorSections(items) ==
    IF items = <<>> THEN <<>>
    ELSE <<Section(Head(items).key, Head(items).value)>> \o CompetitorSections(Tail(items))

\* the text is the sequence of its labelled sections, each holding the value
\* the f-string formats
prepare_competitive_content(cname, target_data, comp_data) ==
    <<Section("TARGET COMPANY", cname)>>
    \o (IF "homepage" \in DOMAIN target_data
        THEN <<Section("TARGET HOMEPAGE", target_data.homepage)>> ELSE <<>>)
    \o (IF "pricing" \in DOMAIN target_data /\ Truthy(target_data.pricing)
        THEN <<Section("TARGET PRICING", target_data.pricing)>> ELSE <<>>)
    \o (IF "features" \in DOMAIN target_data /\ Truthy(target_data.features)
        THEN <<Section("TARGET FEATURES", target_data.features)>> ELSE <<>>)
    \o (IF comp_data # EmptyDict
        THEN <<Section("COMPETITORS", None)>> \o CompetitorSections(comp_data)
        ELSE <<>>)

\* what openai.ChatCompletion.create does: it raises with a message, or
\* returns a response, which may lack the choices the code reads
ChatRaises(message) == [kind |-> "raise", message |-> message]
ChatMalformed == [kind |-> "malformed"]
ChatAnswers(text) == [kind |-> "ok", content |-> text]

Returned(value) == [raised |-> FALSE, value |-> value]
Thrown(message) == [raised |-> TRUE, value |-> message]

\* the try block of get_gpt_response; str(KeyError('choices')) is "'choices'"
GptTry(outcome) ==
    CASE outcome.kind = "raise"     -> Thrown(outcome.message)
      [] outcome.kind = "malformed" -> Thrown(Str(<<"'", "c", "h", "o", "i", "c", "e", "s", "'">>))
      [] outcome.kind = "ok"        -> Returned(outcome.content)

\* variant of the code: no try/except around the chat call
get_gpt_response_uncaught(outcome) == GptTry(outcome)

\* except Exception as e: return f"Error: {str(e)}"
get_gpt_response(outcome) ==
    With(GptTry(outcome), LAMBDA body :
        IF body.raised
        THEN Returned(Str(<<"E", "r", "r", "o", "r", ":", " ">> \o body.value.s))
        ELSE body)

\* content = prepare_competitive_content(...); analyses = {}
PrepareContent ==
    /\ apc = "prepare"
    /\ content' = prepare_competitive_content(company_name, target_company_data,
                                              competitor_data)
    /\ analyses' = <<>>
    /\ apc' = "calls"
    /\ UNCHANGED <<ai, calls, competitive_analysis>>
    /\ UNCHANGED notAnalyzeVars

\* variant of the code: a request that failed is sent once more
AnalyzeCall_retry(Outcomes) ==
    /\ apc = "calls" /\ ai <= Len(AnalysisKinds)
    /\ \E outcome \in Outcomes :
      \E r \in {get_gpt_response(outcome)} :
        /\ calls' = Append(calls, [kind |-> AnalysisKinds[ai], outcome |-> outcome])
        /\ analyses' = (AnalysisKinds[ai] :> r.value) @@ analyses
        /\ ai' = IF outcome.kind # "ok" /\ (calls = <<>> \/ calls[Len(calls)].kind # AnalysisKinds[ai])
                 THEN ai ELSE ai + 1
        /\ UNCHANGED <<apc, competitive_analysis>>
    /\ UNCHANGED content
    /\ UNCHANGED notAnalyzeVars

\* one turn of the loop over analysis_prompts.items()
AnalyzeCall(Outcomes) ==
    /\ apc = "calls" /\ ai <= Len(AnalysisKinds)
    /\ \E outcome \in Outcomes :
      \E r \in {get_gpt_response(outcome)} :
        /\ calls' = Append(calls, [kind |-> AnalysisKinds[ai], outcome |-> outcome])
        /\ IF r.raised
           THEN \* except Exception as e: return {"error": ...}
                /\ competitive_analysis' =
                     [error |-> Str(<<"A", "n", "a", "l", "y", "s", "i", "s", " ", "f", "a", "i", "l", "e", "d", ":", " ">> \o r.value.s)]
                /\ apc' = "done"
                /\ UNCHANGED <<ai, analyses>>
           ELSE /\ analyses' = (AnalysisKinds[ai] :> r.value) @@ analyses
                /\ ai' = ai + 1
                /\ UNCHANGED <<apc, competitive_analysis>>
    /\ UNCHANGED content
    /\ UNCHANGED notAnalyzeVars

\* return analyses
ReturnAnalyses ==
    /\ apc = "calls" /\ ai > Len(AnalysisKinds)
    /\ competitive_analysis' = analyses
    /\ apc' = "done"
    /\ UNCHANGED <<ai, content, analyses, calls>>
    /\ UNCHANGED notAnalyzeVars

RateLimit == Str(<<"R", "a", "t", "e", " ", "l", "i", "m", "i", "t">>)
Report == Str(<<"R", "e", "p", "o", "r", "t">>)

GptOutcomes ==
    {ChatRaises(RateLimit), ChatRaises(EmptyStr), ChatMalformed,
     ChatAnswers(Report), ChatAnswers(None)}

BetaInc == Str(<<"B", "e", "t", "a", " ", "I", "n", "c">>)

\* the records the scraping phase hands over: the target's, and the mapping
\* with the target added last
InitAnalyze ==
    /\ rev = "comprehensive" /\ creds = NotRun /\ company_name = Acme
    /\ dpc = "idle" /\ qi = 1 /\ raw_competitors = <<>> /\ requests = <<>>
    /\ competitors = NotRun
    /\ mpc = "analyze" /\ si = 1
    /\ target_company_data \in {scrape_company_comprehensive(s) : s \in PipelineSites}
    /\ \E scraped \in {EmptyDict} \cup
            {DictSet(EmptyDict, BetaInc, scrape_company_comprehensive(s)) : s \in PipelineSites} :
        competitor_data = DictSet(scraped, company_name, target_company_data)
    /\ apc = "prepare" /\ ai = 1 /\ content = NotRun /\ analyses = NotRun
    /\ calls = <<>> /\ competitive_analysis = NotRun
    /\ ScrapeIdle /\ TableIdle /\ CallIdle

NextAnalyze ==
    \/ PrepareContent
    \/ AnalyzeCall(GptOutcomes)
    \/ ReturnAnalyses

SpecAnalyze == InitAnalyze /\ [][NextAnalyze]_vars

(***************************************************************************)
(* Claims about the analysis runner (checked under SpecAnalyze).           *)
(***************************************************************************)
Analyzed == apc = "done"

CallFailed(call) == call.outcome.kind # "ok"

ErrorPrefix == <<"E", "r", "r", "o", "r", ":", " ">>

\* C7: analyze_competitive_landscape never raises and returns a mapping with
\* exactly the six keys overview, structured_analysis, table_data, pricing,
\* features, swot, whichever of the six calls fail: the key of a failed call
\* holds a string that begins "Error: ", the key of a call that succeeded
\* holds its response unchanged.
C7_SixKeysWhateverFails ==
    Analyzed =>
        /\ DOMAIN competitive_analysis =
             {"overview", "structured_analysis", "table_data", "pricing", "features", "swot"}
        /\ Len(calls) = 6
        /\ \A k \in 1..Len(calls) :
            /\ calls[k].kind = AnalysisKinds[k]
            /\ IF CallFailed(calls[k])
               THEN /\ competitive_analysis[calls[k].kind].t = "str"
                    /\ StartsWith(competitive_analysis[calls[k].kind].s, ErrorPrefix)
               ELSE competitive_analysis[calls[k].kind] = calls[k].outcome.content

\* a run where some calls failed and others succeeded
C7_Witness ==
    /\ Analyzed
    /\ Len(calls) = 6
    /\ calls[1].outcome = ChatRaises(RateLimit)
    /\ calls[2].outcome = ChatMalformed
    /\ calls[3].outcome = ChatAnswers(Report)
    /\ calls[6].outcome = ChatRaises(EmptyStr)
    /\ competitive_analysis.table_data = Report

(***************************************************************************)
(* The comparison table of display_competitive_overview.  The text under   *)
(* table_data is a string whose characters are grouped into tokens: the    *)
(* brackets, the comma, JSON objects and numbers (which hold no bracket),  *)
(* and prose.                                                              *)
(***************************************************************************)
LBracket == [tok |-> "["]
RBracket == [tok |-> "]"]
Comma == [tok |-> ","]
Prose == [tok |-> "prose"]
Literal(value) == [tok |-> "value", value |-> value]

\* the Python values json.loads builds
Number(n) == [t |-> "int", n |-> n]
Dict(d) == [t |-> "dict", d |-> d]

\* re.search(r'\[.*\]', table_analysis, re.DOTALL).group(): the dot matches
\* everything and the star is greedy, so the match runs from the first '['
\* to the last ']' after it; None when there is no such pair
json_match(toks) ==
    LET opens == {i \in 1..Len(toks) : toks[i] = LBracket}
    IN  IF opens = {} THEN None
        ELSE LET first == CHOOSE i \in opens : \A j \in opens : i <= j
                 closes == {j \in (first + 1)..Len(toks) : toks[j] = RBracket}
             IN  IF closes = {} THEN None
                 ELSE Str(SubSeq(toks, first, CHOOSE j \in closes : \A k \in closes : k <= j))

Parsed(value, rest) == [ok |-> TRUE, value |-> value, rest |-> rest]
NotParsed == [ok |-> FALSE]

RECURSIVE ParseValue(_)
RECURSIVE ParseElements(_, _)

\* the elements of an array after one of them: ',' and a value, or ']'
ParseElements(toks, elements) ==
    IF toks = <<>> THEN NotParsed
    ELSE IF Head(toks) = RBracket THEN Parsed(List(elements), Tail(toks))
    ELSE IF Head(toks) = Comma
         THEN With(ParseValue(Tail(toks)), LAMBDA v :
                IF v.ok THEN ParseElements(v.rest, Append(elements, v.value))
                ELSE NotParsed)
    ELSE NotParsed

\* a JSON value at the head of the tokens: an object, a number or an array
ParseValue(toks) ==
    IF toks = <<>> THEN NotParsed
    ELSE IF Head(toks).tok = "value" THEN Parsed(Head(toks).value, Tail(toks))
    ELSE IF Head(toks) = LBracket
         THEN IF Tail(toks) # <<>> /\ Tail(toks)[1] = RBracket
              THEN Parsed(List(<<>>), Tail(Tail(toks)))
              ELSE With(ParseValue(Tail(toks)), LAMBDA v :
                     IF v.ok THEN ParseElements(v.rest, <<v.value>>)
                     ELSE NotParsed)
    ELSE NotParsed

\* json.loads(text): the whole text must be one value
json_loads(text) ==
    With(ParseValue(text.s), LAMBDA v :
        IF v.ok /\ v.rest = <<>> THEN Returned(v.value) ELSE Thrown(None))

\* parsed_data = {}
EmptyParsed == Dict(<<>>)

\* lines 738-749: parsed_data after the try block
ParseTableData(analysis_results) ==
    LET text == Get(analysis_results, "table_data", EmptyStr)
    IN  IF Truthy(text) /\ "table_data" \in DOMAIN analysis_results
        THEN With(json_match(text.s), LAMBDA m :
                IF m # None
                THEN With(json_loads(m), LAMBDA loaded :
                        IF loaded.raised THEN EmptyParsed ELSE loaded.value)
                ELSE EmptyParsed)
        ELSE EmptyParsed

RECURSIVE NextMatching(_, _)
\* next((item for item in items if
\*       item.get('company_name', '').lower() == name.lower()), None):
\* only a dict has get, only a string has lower
NextMatching(items, name) ==
    IF items = <<>> THEN Returned(None)
    ELSE LET item == Head(items)
         IN  IF item.t # "dict" THEN Thrown(None)
             ELSE LET item_name == Get(item.d, "company_name", EmptyStr)
                  IN  IF item_name.t # "str" THEN Thrown(None)
                      ELSE IF Lower(item_name) = Lower(name) THEN Returned(item)
                      ELSE NextMatching(Tail(items), name)

Analyzing == Str(<<"A", "n", "a", "l", "y", "z", "i", "n", "g", ".", ".", ".">>)

\* a row of the table for the company: its four analysis columns come from
\* the matching item of parsed_data if there is one
TableRow(parsed, name, url) ==
    With(IF parsed.t = "list" /\ parsed.l # <<>>
         THEN NextMatching(parsed.l, name) ELSE Returned(None),
         LAMBDA found :
            IF found.raised THEN found
            ELSE LET column(key) ==
                        IF found.value # None
                        THEN Get(found.value.d, key, Analyzing) ELSE Analyzing
                 IN  Returned([Company |-> name, URL |-> url,
                               target_persona |-> column("target_persona"),
                               market_positioning |-> column("market_positioning"),
                               tone_messaging |-> column("tone_messaging"),
                               differentiation |-> column("differentiation")]))

TargetUrl == Str(<<"T", "a", "r", "g", "e", "t", " ", "C", "o", "m", "p", "a", "n", "y">>)

\* lines 735-749
ParseTable ==
    /\ tpc = "parse"
    /\ table_analysis' = Get(competitive_analysis, "table_data", EmptyStr)
    /\ parsed_data' = ParseTableData(competitive_analysis)
    /\ table_data' = <<>>
    /\ tpc' = "target"
    /\ UNCHANGED ti
    /\ UNCHANGED notTableVars

\* lines 753-766: the target's row; an exception leaves the function
TargetRow ==
    /\ tpc = "target"
    /\ \E r \in {TableRow(parsed_data, company_name, TargetUrl)} :
        IF r.raised
        THEN tpc' = "raised" /\ UNCHANGED <<ti, table_data>>
        ELSE /\ table_data' = Append(table_data, r.value)
             /\ tpc' = "competitors" /\ ti' = 1
    /\ UNCHANGED <<table_analysis, parsed_data>>
    /\ UNCHANGED notTableVars

\* lines 769-783: one turn of the loop over competitors
CompetitorRow ==
    /\ tpc = "competitors" /\ ti <= Len(competitors)
    /\ \E r \in {TableRow(parsed_data, competitors[ti].name, competitors[ti].url)} :
        IF r.raised
        THEN tpc' = "raised" /\ UNCHANGED <<ti, table_data>>
        ELSE /\ table_data' = Append(table_data, r.value)
             /\ ti' = ti + 1 /\ UNCHANGED tpc
    /\ UNCHANGED <<table_analysis, parsed_data>>
    /\ UNCHANGED notTableVars

\* lines 786-: the rows go to the data frame
ShowTable ==
    /\ tpc = "competitors" /\ ti > Len(competitors)
    /\ tpc' = "done"
    /\ UNCHANGED <<ti, table_analysis, parsed_data, table_data>>
    /\ UNCHANGED notTableVars

(***************************************************************************)
(* The texts the table is built from, and the table built on its own.      *)
(***************************************************************************)
MaxTokens == 5

\* the target's object, its name in another case, one column missing
AcmeObject ==
    Dict([company_name |-> Str(<<"A", "C", "M", "E">>),
          target_persona |-> Str(<<"D", "e", "v", "s">>),
          market_positioning |-> Str(<<"L", "e", "a", "d", "e", "r">>),
          tone_messaging |-> Str(<<"B", "o", "l", "d">>)])

BetaObject ==
    Dict([company_name |-> Str(<<"b", "e", "t", "a", " ", "i", "n", "c">>),
          target_persona |-> Str(<<"O", "p", "s">>),
          differentiation |-> None])

\* "company_name": null
NullNameObject == Dict([company_name |-> None, target_persona |-> Str(<<"A", "n", "y">>)])

Tokens ==
    {LBracket, RBracket, Comma, Prose, Literal(AcmeObject), Literal(BetaObject),
     Literal(NullNameObject), Literal(Number(1))}

RECURSIVE TokenSeqs(_)
TokenSeqs(n) ==
    IF n = 0 THEN {<<>>}
    ELSE LET shorter == TokenSeqs(n - 1)
         IN  shorter \cup {Append(toks, tok) : toks \in {t \in shorter : Len(t) = n - 1},
                                                 tok \in Tokens}

Texts == {Str(toks) : toks \in TokenSeqs(MaxTokens)}

\* what analyze_competitive_landscape can have returned, as far as the table
\* reads it
AnalysisResults ==
    {[table_data |-> text] : text \in Texts \cup {None}}

TableCompetitors ==
    <<Candidate(BetaInc, Str(<<"u", "1">>), "serpapi"),
      Candidate(Str(<<"G", "a", "m", "m", "a">>), Str(<<"u", "3">>), "serpapi")>>

InitTable ==
    /\ rev = "comprehensive" /\ creds = NotRun /\ company_name = Acme
    /\ dpc = "done" /\ qi = 1 /\ raw_competitors = <<>> /\ requests = <<>>
    /\ competitors = TableCompetitors
    /\ apc = "done" /\ ai = 1 /\ content = NotRun /\ analyses = NotRun
    /\ calls = <<>>
    /\ competitive_analysis \in AnalysisResults
    /\ tpc = "parse" /\ ti = 1 /\ table_analysis = NotRun
    /\ parsed_data = NotRun /\ table_data = <<>>
    /\ ScrapeIdle /\ PipelineIdle /\ CallIdle

NextTable ==
    \/ ParseTable
    \/ TargetRow
    \/ CompetitorRow
    \/ ShowTable

SpecTable == InitTable /\ [][NextTable]_vars

(***************************************************************************)
(* Claims about the comparison table (checked under SpecTable).            *)
(***************************************************************************)
TableShown == tpc = "done"
TableRaised == tpc = "raised"

AnalysisColumns ==
    {"target_persona", "market_positioning", "tone_messaging", "differentiation"}

AllAnalyzing(row) == \A column \in AnalysisColumns : row[column] = Analyzing

\* a list of objects whose company_name fields are strings
ListOfNamedObjects(value) ==
    /\ value.t = "list"
    /\ \A i \in 1..Len(value.l) :
        /\ value.l[i].t = "dict"
        /\ "company_name" \in DOMAIN value.l[i].d
        /\ value.l[i].d.company_name.t = "str"

\* some '[' to some later ']' of the text parses as such a list
SubstringUsable(toks) ==
    \E i, j \in 1..Len(toks) :
        /\ i < j /\ toks[i] = LBracket /\ toks[j] = RBracket
        /\ ~json_loads(Str(SubSeq(toks, i, j))).raised
        /\ ListOfNamedObjects(json_loads(Str(SubSeq(toks, i, j))).value)

\* C8: building the table never raises, whatever the text under table_data
\* is; when no bracketed substring parses as JSON, or the parsed value is not
\* a list of objects with string company_name fields, the target's row and
\* every competitor's row show "Analyzing..." in the four analysis columns.
C8_TableNeverRaises ==
    /\ ~TableRaised
    /\ (TableShown /\ table_analysis # None /\ ~SubstringUsable(table_analysis.s)) =>
            \A i \in 1..Len(table_data) : AllAnalyzing(table_data[i])

\* the first '[' and the ']' that matches it: the end of the first bracketed
\* substring, 0 if the bracket is never closed
RECURSIVE MatchingClose(_, _, _)
MatchingClose(toks, i, depth) ==
    IF i > Len(toks) THEN 0
    ELSE IF toks[i] = LBracket THEN MatchingClose(toks, i + 1, depth + 1)
    ELSE IF toks[i] = RBracket
         THEN IF depth = 1 THEN i ELSE MatchingClose(toks, i + 1, depth - 1)
    ELSE MatchingClose(toks, i + 1, depth)

FirstOpen(toks) ==
    LET opens == {i \in 1..Len(toks) : toks[i] = LBracket}
    IN  IF opens = {} THEN 0 ELSE CHOOSE i \in opens : \A j \in opens : i <= j

\* the text up to the end of its first bracketed substring
UpToFirstBracketed(text) ==
    LET open == FirstOpen(text.s)
        close == IF open = 0 THEN 0 ELSE MatchingClose(text.s, open + 1, 1)
    IN  IF close = 0 THEN text ELSE Str(SubSeq(text.s, 1, close))

\* the rows the text gives, if building them does not raise
RowsOf(text) ==
    LET parsed == ParseTableData([table_data |-> text])
        target == TableRow(parsed, company_name, TargetUrl)
        rows == [i \in 1..Len(competitors) |->
                    TableRow(parsed, competitors[i].name, competitors[i].url)]
    IN  IF target.raised \/ \E i \in 1..Len(competitors) : rows[i].raised
        THEN Thrown(None)
        ELSE Returned(<<target.value>> \o [i \in 1..Len(competitors) |-> rows[i].value])

\* C9: the table is built from the first bracketed substring of the text,
\* from the first '[' to its matching ']': what follows that substring, be it
\* further ']' characters or a second bracketed region, does not change the
\* rows.
C9_TextAfterFirstBracketedIgnored ==
    (TableShown /\ table_analysis # None
        /\ ~RowsOf(UpToFirstBracketed(table_analysis)).raised) =>
            table_data = RowsOf(UpToFirstBracketed(table_analysis)).value

(***************************************************************************)
(* extract_pricing_from_page called on its own, on pages whose pricing     *)
(* elements match any of the name and price selectors, with or without     *)
(* text.                                                                   *)
(***************************************************************************)
MaxElements == 2

\* what the name selectors find inside a pricing element
NameParts ==
    {NoSel,
     ".tier-name" :> Str(<<"P", "r", "o">>),
     ".tier-name" :> Str(<<" ">>),
     "h4" :> Str(<<"M", "a", "x">>),
     (".tier-name" :> EmptyStr) @@ ("h3" :> Str(<<"T", "e", "a", "m">>))}

\* what the price selectors find inside it
PriceParts ==
    {NoSel,
     ".price" :> Str(<<"$", "9">>),
     ".price" :> EmptyStr,
     ".amount" :> Str(<<" ", "$", "1", " ">>)}

PricingElements == {name @@ price : name \in NameParts, price \in PriceParts}

RECURSIVE ElementSeqs(_)
ElementSeqs(n) ==
    IF n = 0 THEN {<<>>}
    ELSE LET shorter == ElementSeqs(n - 1)
         IN  shorter \cup {Append(els, el) : els \in {e \in shorter : Len(e) = n - 1},
                                               el \in PricingElements}

PricingPages == {Page(None, NoSel, <<>>, els) : els \in ElementSeqs(MaxElements)}

InitPricing ==
    /\ fn = "extract_pricing_from_page"
    /\ arg \in PricingPages
    /\ ret = NotRun
    /\ DiscoverIdle /\ ScrapeIdle /\ PipelineIdle /\ AnalyzeIdle /\ TableIdle

ExtractPricing ==
    /\ fn = "extract_pricing_from_page" /\ ret = NotRun
    /\ ret' = extract_pricing_from_page(arg)
    /\ UNCHANGED <<fn, arg>>
    /\ UNCHANGED notCallVars

NextPricing == ExtractPricing

SpecPricing == InitPricing /\ [][NextPricing]_vars

(***************************************************************************)
(* Claims about pricing extraction (checked under SpecPricing).            *)
(***************************************************************************)
PricingExtracted == fn = "extract_pricing_from_page" /\ ret # NotRun

NameSelectors == {".tier-name", ".plan-name", "h3", "h4"}
PriceSelectors == {".price", ".cost", ".amount"}

\* the indexes of the elements whose extracted name and price are both
\* non-empty
Qualifying(elements) ==
    {i \in 1..Len(elements) :
        extract_tier_name(elements[i]) # EmptyStr /\ extract_tier_price(elements[i]) # EmptyStr}

\* the i-th smallest member of a set of numbers
RECURSIVE Nth(_, _)
Nth(set, i) ==
    LET least == CHOOSE x \in set : \A y \in set : x <= y
    IN  IF i = 1 THEN least ELSE Nth(set \ {least}, i - 1)

\* C11: an element contributes a tier if and only if both its extracted name
\* and its extracted price are non-empty (an element with a matched name
\* selector and no matched price selector contributes none), every returned
\* tier has a non-empty name and a non-empty price, and a page without such an
\* element gives None, not an empty list.
C11_TierNeedsNameAndPrice ==
    PricingExtracted =>
        LET elements == arg.pricingEls
            kept == Qualifying(elements)
        IN  /\ kept = {} <=> ret = None
            /\ ret # List(<<>>)
            /\ kept # {} =>
                /\ ret.t = "list" /\ Len(ret.l) = Cardinality(kept)
                /\ \A k \in 1..Len(ret.l) :
                    /\ ret.l[k].name # EmptyStr /\ ret.l[k].price # EmptyStr
                    /\ ret.l[k].name = extract_tier_name(elements[Nth(kept, k)])
                    /\ ret.l[k].price = extract_tier_price(elements[Nth(kept, k)])
            /\ \A i \in 1..Len(elements) :
                (DOMAIN elements[i] \cap PriceSelectors = {}) => i \notin kept

\* a page with an element that has a name and no price, followed by one that
\* has both: one tier
C11_Witness ==
    /\ PricingExtracted
    /\ Len(arg.pricingEls) = 2
    /\ DOMAIN arg.pricingEls[1] \cap NameSelectors # {}
    /\ DOMAIN arg.pricingEls[1] \cap PriceSelectors = {}
    /\ extract_tier_name(arg.pricingEls[1]) # EmptyStr
    /\ ret # None /\ Len(ret.l) = 1

(***************************************************************************)
(* extract_company_name_from_url called on its own.                        *)
(***************************************************************************)
\* the index of the first occurrence of p in s at or after i, 0 if none
RECURSIVE Find(_, _, _)
Find(s, p, i) ==
    IF i + Len(p) - 1 > Len(s) THEN 0
    ELSE IF SubSeq(s, i, i + Len(p) - 1) = p THEN i
    ELSE Find(s, p, i + 1)

\* urllib.parse.urlparse(url).netloc for a URL with a scheme: what stands
\* between "//" and the next '/', '?' or '#'.  urlparse raises ValueError
\* when the brackets of an IPv6 host are not paired.
NetlocEnd(s, from) ==
    LET ends == {i \in from..Len(s) : s[i] \in {"/", "?", "#"}}
    IN  IF ends = {} THEN Len(s) ELSE (CHOOSE i \in ends : \A j \in ends : i <= j) - 1

urlparse_netloc(url) ==
    LET start == Find(url.s, <<"/", "/">>, 1)
    IN  IF start = 0 THEN Returned(EmptyStr)
        ELSE LET netloc == SubSeq(url.s, start + 2, NetlocEnd(url.s, start + 2))
             IN  IF ("[" \in {netloc[i] : i \in 1..Len(netloc)})
                        # ("]" \in {netloc[i] : i \in 1..Len(netloc)})
                 THEN Thrown(None)
                 ELSE Returned(Str(netloc))

ToUpper == [c \in {ToLower[u] : u \in DOMAIN ToLower} |->
                CHOOSE u \in DOMAIN ToLower : ToLower[u] = c]

Cased(c) == c \in DOMAIN ToLower \/ c \in DOMAIN ToUpper

\* str.title(): a letter that follows a letter is lowered, any other letter
\* is raised
TitleChars(s) ==
    [i \in 1..Len(s) |->
        IF ~Cased(s[i]) THEN s[i]
        ELSE IF i > 1 /\ Cased(s[i - 1])
             THEN (IF s[i] \in DOMAIN ToLower THEN ToLower[s[i]] ELSE s[i])
             ELSE (IF s[i] \in DOMAIN ToUpper THEN ToUpper[s[i]] ELSE s[i])]

UnknownCompany == Str(<<"U", "n", "k", "n", "o", "w", "n", " ", "C", "o", "m", "p", "a", "n", "y">>)

\* domain.replace('www.', '').replace('http://', '').replace('https://', '')
StripPrefixes(domain) ==
    ReplaceChars(ReplaceChars(ReplaceChars(domain, <<"w", "w", "w", ".">>, <<>>), <<"h", "t", "t", "p", ":", "/", "/">>, <<>>),
                 <<"h", "t", "t", "p", "s", ":", "/", "/">>, <<>>)

extract_company_name_from_url(url) ==
    With(urlparse_netloc(url), LAMBDA parsed :
        IF parsed.raised THEN UnknownCompany
        ELSE LET domain == StripPrefixes(LowerChars(parsed.value.s))
                 name == IF "." \in {domain[i] : i \in 1..Len(domain)}
                         THEN SplitSep(domain, <<".">>, <<>>)[1].s
                         ELSE domain
             IN  Str(TitleChars(ReplaceChars(ReplaceChars(name, <<"-">>, <<" ">>),
                                             <<"_">>, <<" ">>))))

MaxLabels == 3

\* the labels of the hosts tried, before the top-level label
HostLabels ==
    {<<"w", "w", "w">>, <<"W", "W", "W">>, <<"w">>, <<"w", "w">>, <<"w", "w", "w", "w", "w">>, <<"a">>, <<"m", "y", "-", "c", "o">>, <<"s", "o", "n", "a", "r", "s", "o", "u", "r", "c", "e">>}

RECURSIVE Hosts(_)
\* the hosts of up to n labels, each followed by ".com"
Hosts(n) ==
    IF n = 0 THEN {<<"c", "o", "m">>}
    ELSE Hosts(n - 1) \cup {label \o <<".">> \o host : label \in HostLabels,
                             host \in {h \in Hosts(n - 1) : Len(SplitSep(h, <<".">>, <<>>)) = n}}

Schemes == {<<"h", "t", "t", "p">>, <<"h", "t", "t", "p", "s">>}
UrlTails == {<<>>, <<"/">>, <<"/", "p", "r", "i", "c", "i", "n", "g", "?", "q", "=", "1">>}

\* well-formed absolute URLs of web sites
WebUrls ==
    {Str(scheme \o <<":", "/", "/">> \o host \o tail) :
        scheme \in Schemes, host \in Hosts(MaxLabels) \ {<<"c", "o", "m">>}, tail \in UrlTails}

\* a URL urlparse rejects
BadUrls == {Str(<<"h", "t", "t", "p", "s", ":", "/", "/", "[", "w", "w", "w", ".", "a", ".", "c", "o", "m">>)}

InitUrl ==
    /\ fn = "extract_company_name_from_url"
    /\ arg \in WebUrls \cup BadUrls
    /\ ret = NotRun
    /\ DiscoverIdle /\ ScrapeIdle /\ PipelineIdle /\ AnalyzeIdle /\ TableIdle

ExtractCompanyName ==
    /\ fn = "extract_company_name_from_url" /\ ret = NotRun
    /\ ret' = extract_company_name_from_url(arg)
    /\ UNCHANGED <<fn, arg>>
    /\ UNCHANGED notCallVars

NextUrl == ExtractCompanyName

SpecUrl == InitUrl /\ [][NextUrl]_vars

(***************************************************************************)
(* Claims about the name normalizer (checked under SpecUrl).               *)
(***************************************************************************)
NameExtracted == fn = "extract_company_name_from_url" /\ ret # NotRun

\* C12: for every well-formed absolute URL the returned name is non-empty and
\* contains no "www" in any letter case, no scheme fragment and no dot, also
\* when "www." stands elsewhere than at the head of the host or forms again
\* after a removal; https://www.sonarsource.com gives Sonarsource.
C12_NameHasNoWww ==
    (NameExtracted /\ arg \in WebUrls) =>
        /\ ret # EmptyStr
        /\ ~ContainsChars(LowerChars(ret.s), <<"w", "w", "w">>)
        /\ ~ContainsChars(ret.s, <<":", "/", "/">>)
        /\ ~ContainsChars(ret.s, <<".">>)
        /\ arg = Str(<<"h", "t", "t", "p", "s", ":", "/", "/", "w", "w", "w", ".", "s", "o", "n", "a", "r", "s", "o", "u", "r", "c", "e", ".", "c", "o", "m">>) => ret = Str(<<"S", "o", "n", "a", "r", "s", "o", "u", "r", "c", "e">>)

(***************************************************************************)
(* More claims about discovery (checked under SpecDiscover).               *)
(***************************************************************************)
Sources(list) == {list[i].source : i \in 1..Len(list)}

PlaceholderNames == <<Str(<<"C", "o", "m", "p", "e", "t", "i", "t", "o", "r", " ", "1">>), Str(<<"C", "o", "m", "p", "e", "t", "i", "t", "o", "r", " ", "2">>), Str(<<"C", "o", "m", "p", "e", "t", "i", "t", "o", "r", " ", "3">>)>>

\* C13: when discovery ends without any candidate, discover_competitors
\* returns exactly the three placeholders Competitor 1, 2, 3 with source
\* fallback and discover_competitors_comprehensive returns the empty list; no
\* returned list mixes a fallback entry with an entry of a real backend.
C13_FallbackOnlyWhenNothingFound ==
    Discovered =>
        /\ (raw_competitors = <<>> /\ rev = "main") =>
            /\ Len(competitors) = 3
            /\ \A i \in 1..3 : /\ competitors[i].name = PlaceholderNames[i]
                               /\ competitors[i].source = "fallback"
        /\ (raw_competitors = <<>> /\ rev = "comprehensive") => competitors = <<>>
        /\ "fallback" \in Sources(competitors) => Sources(competitors) = {"fallback"}
        /\ raw_competitors # <<>> => "fallback" \notin Sources(competitors)

\* every request of both backends was made and failed, in main.py
C13_Witness ==
    /\ Discovered /\ rev = "main"
    /\ Len(requests) = GoogleQueries_main + SerpapiQueries_main
    /\ \A k \in 1..Len(requests) : requests[k].response.kind # "json"
    /\ raw_competitors = <<>>
    /\ Len(competitors) = 3

(***************************************************************************)
(* competitive_research.py, main(): one click on "Research Competitors",   *)
(* from the checks of the inputs to the last status line.  fn is "main",   *)
(* arg holds the URL typed in and whether there is an OpenAI key, ret is   *)
(* what main() left on the page when it returned.  The stages are the      *)
(* actions written above; the overview tab stands for the display.         *)
(***************************************************************************)
NoUrlMessage == Str(<<"P", "l", "e", "a", "s", "e", " ", "e", "n", "t", "e", "r", " ", "a", " ", "c", "o", "m", "p", "a", "n", "y", " ", "w", "e", "b", "s", "i", "t", "e", " ", "U", "R", "L">>)
NoKeyMessage == Str(<<"P", "l", "e", "a", "s", "e", " ", "e", "n", "t", "e", "r", " ", "y", "o", "u", "r", " ", "O", "p", "e", "n", "A", "I", " ", "A", "P", "I", " ", "k", "e", "y", " ", "i", "n", " ", "t", "h", "e", " ", "s", "i", "d", "e", "b", "a", "r">>)
CompleteMessage == Str(<<"C", "o", "m", "p", "e", "t", "i", "t", "i", "v", "e", " ", "r", "e", "s", "e", "a", "r", "c", "h", " ", "c", "o", "m", "p", "l", "e", "t", "e", "!">>)
FailedPrefix == <<"C", "o", "m", "p", "e", "t", "i", "t", "i", "v", "e", " ", "r", "e", "s", "e", "a", "r", "c", "h", " ", "f", "a", "i", "l", "e", "d", ":", " ">>

\* lines 53-59: the two checks before the try block
RefuseRun ==
    /\ fn = "main" /\ mpc = "start"
    /\ ~Truthy(arg.company_url) \/ ~arg.openai_api_key
    /\ ret' = IF ~Truthy(arg.company_url) THEN [error |-> NoUrlMessage]
              ELSE [error |-> NoKeyMessage]
    /\ mpc' = "returned"
    /\ UNCHANGED <<fn, arg, si, target_company_data, competitor_data>>
    /\ UNCHANGED <<discoverVars, scrapeVars, analyzeVars, tableVars>>

\* line 71, and line 78 up to the call of discover_competitors_comprehensive
ExtractName ==
    /\ fn = "main" /\ mpc = "start"
    /\ Truthy(arg.company_url) /\ arg.openai_api_key
    /\ company_name' = extract_company_name_from_url(arg.company_url)
    /\ dpc' = "serpapi"
    /\ mpc' = "discover"
    /\ UNCHANGED <<rev, creds, qi, raw_competitors, requests, competitors>>
    /\ UNCHANGED <<si, target_company_data, competitor_data>>
    /\ UNCHANGED <<scrapeVars, analyzeVars, tableVars, callVars>>

\* variant of the code: the analysis is started while competitors are being scraped
CallAnalysis_early ==
    /\ fn = "main" /\ mpc \in {"scrape_competitors", "analyze"} /\ apc = "idle"
    /\ apc' = "prepare"
    /\ UNCHANGED <<ai, content, analyses, calls, competitive_analysis>>
    /\ UNCHANGED notAnalyzeVars

\* line 100: the call of analyze_competitive_landscape
CallAnalysis ==
    /\ fn = "main" /\ mpc = "analyze" /\ apc = "idle"
    /\ apc' = "prepare"
    /\ UNCHANGED <<ai, content, analyses, calls, competitive_analysis>>
    /\ UNCHANGED notAnalyzeVars

\* line 106: the call of display_competitive_research_results
CallDisplay ==
    /\ fn = "main" /\ mpc = "analyze" /\ apc = "done"
    /\ mpc' = "display" /\ tpc' = "parse"
    /\ UNCHANGED <<si, target_company_data, competitor_data>>
    /\ UNCHANGED <<ti, table_analysis, parsed_data, table_data>>
    /\ UNCHANGED <<discoverVars, scrapeVars, analyzeVars, callVars>>

\* line 108: the display returned
FinishRun ==
    /\ fn = "main" /\ mpc = "display" /\ tpc = "done"
    /\ ret' = [status |-> CompleteMessage]
    /\ mpc' = "returned"
    /\ UNCHANGED <<fn, arg, si, target_company_data, competitor_data>>
    /\ UNCHANGED <<discoverVars, scrapeVars, analyzeVars, tableVars>>

\* str(e) of the AttributeError raised by 1.get('company_name', '')
NoAttribute == <<"'", "i", "n", "t", "'", " ", "o", "b", "j", "e", "c", "t", " ", "h", "a", "s", " ", "n", "o", " ", "a", "t", "t", "r", "i", "b", "u", "t", "e", " ", "'", "g", "e", "t", "'">>

\* variant of the code: no except clause after the try block
main_except_none(e) == Thrown(e)

\* lines 110-112: except Exception as e: st.error(f"...failed: {str(e)}")
main_except(e) == Returned([error |-> Str(FailedPrefix \o e)])

\* lines 110-112: an exception has left the display
CatchAll ==
    /\ fn = "main" /\ mpc = "display" /\ tpc = "raised"
    /\ \E r \in {main_except(NoAttribute)} :
        IF r.raised
        THEN mpc' = "raised" /\ ret' = r
        ELSE mpc' = "returned" /\ ret' = r.value
    /\ UNCHANGED <<fn, arg, si, target_company_data, competitor_data>>
    /\ UNCHANGED <<discoverVars, scrapeVars, analyzeVars, tableVars>>

AcmeUrl == Str(<<"h", "t", "t", "p", "s", ":", "/", "/", "a", "c", "m", "e", ".", "c", "o", "m">>)
CompanyUrls == {EmptyStr, AcmeUrl}
RunCredentials ==
    {[serpapi_key |-> FALSE, google_api_key |-> FALSE, google_cse_id |-> FALSE],
     [serpapi_key |-> FALSE, google_api_key |-> TRUE, google_cse_id |-> TRUE],
     [serpapi_key |-> TRUE, google_api_key |-> TRUE, google_cse_id |-> TRUE]}
RunSerpResponses == {SerpOne}
RunGoogleResponses == {GoogleC}

\* the answers of the chat API: a table that names the target, and a list
\* with a number in it
GoodTable == Str(<<LBracket, Literal(AcmeObject), RBracket>>)
BadTable == Str(<<LBracket, Literal(Number(1)), RBracket>>)
RunOutcomes == {ChatAnswers(GoodTable), ChatAnswers(BadTable)}

InitRun ==
    /\ fn = "main"
    /\ arg \in [company_url : CompanyUrls, openai_api_key : BOOLEAN]
    /\ ret = NotRun
    /\ rev = "comprehensive" /\ creds \in RunCredentials /\ company_name = NotRun
    /\ dpc = "idle" /\ qi = 1 /\ raw_competitors = <<>> /\ requests = <<>>
    /\ competitors = NotRun
    /\ mpc = "start" /\ si = 1
    /\ target_company_data = NotRun /\ competitor_data = NotRun
    /\ ScrapeIdle /\ AnalyzeIdle /\ TableIdle

NextRun ==
    \/ RefuseRun
    \/ ExtractName
    \/ SerpapiQuery(RunSerpResponses)
    \/ SerpapiSkip
    \/ GoogleQuery(RunGoogleResponses)
    \/ GoogleSkip
    \/ ReturnUnique
    \/ ScrapeTarget(PipelineSites)
    \/ ScrapeCompetitor(PipelineSites)
    \/ AddTarget
    \/ CallAnalysis
    \/ PrepareContent
    \/ AnalyzeCall(RunOutcomes)
    \/ ReturnAnalyses
    \/ CallDisplay
    \/ ParseTable
    \/ TargetRow
    \/ CompetitorRow
    \/ ShowTable
    \/ FinishRun
    \/ CatchAll

SpecRun == InitRun /\ [][NextRun]_vars

\* the steps of main() that wait for nothing, or for a page or a chat answer
LocalSteps ==
    \/ RefuseRun
    \/ SerpapiSkip
    \/ GoogleSkip
    \/ ReturnUnique
    \/ ScrapeTarget(PipelineSites)
    \/ ScrapeCompetitor(PipelineSites)
    \/ AddTarget
    \/ CallAnalysis
    \/ PrepareContent
    \/ AnalyzeCall(RunOutcomes)
    \/ ReturnAnalyses
    \/ CallDisplay
    \/ ParseTable
    \/ TargetRow
    \/ CompetitorRow
    \/ ShowTable
    \/ FinishRun
    \/ CatchAll

\* when ExtractName, SerpapiQuery and GoogleQuery can be taken: their guards
NameDue == fn = "main" /\ mpc = "start" /\ Truthy(arg.company_url) /\ arg.openai_api_key
SerpapiDue == dpc = "serpapi" /\ creds.serpapi_key
GoogleDue == dpc = "google" /\ (qi > 1 \/ (Len(raw_competitors) < BackupThreshold /\ GoogleReady))

\* main() is one thread: a step that can be taken is taken, and every
\* request has a timeout, so it answers or raises.  Weak fairness of every
\* step; for the three steps that work on strings it is written out, with
\* the guard of the step as its enabling condition.
FairRun ==
    /\ SpecRun
    /\ WF_vars(LocalSteps)
    /\ []<>(~NameDue) \/ []<><<ExtractName>>_vars
    /\ []<>(~SerpapiDue) \/ []<><<SerpapiQuery(RunSerpResponses)>>_vars
    /\ []<>(~GoogleDue) \/ []<><<GoogleQuery(RunGoogleResponses)>>_vars

(***************************************************************************)
(* Claims about a whole run of main().                                     *)
(***************************************************************************)
\* the run has a URL and an OpenAI key and none of the search credentials
NoSearchRun ==
    /\ fn = "main" /\ Truthy(arg.company_url) /\ arg.openai_api_key
    /\ ~creds.serpapi_key /\ ~creds.google_api_key /\ ~creds.google_cse_id

TargetHandedOver ==
    /\ target_company_data # NotRun
    /\ competitor_data = <<[key |-> company_name, value |-> target_company_data]>>
    /\ apc \in {"calls", "done"} =>
         /\ content[1] = Section("TARGET COMPANY", company_name)
         /\ \E i \in 1..Len(content) :
              content[i] = Section(company_name, target_company_data)

WithoutSearch ==
    NoSearchRun =>
        /\ requests = <<>>
        /\ dpc = "done" => competitors = <<>>
        /\ mpc \in {"scrape_competitors", "analyze", "display", "returned"} =>
             target_company_data \in {scrape_company_comprehensive(s) : s \in PipelineSites}
        /\ mpc \in {"analyze", "display", "returned"} => TargetHandedOver
        /\ apc # "idle" => mpc \in {"analyze", "display", "returned"}

\* C14: in a run with an OpenAI key and no search credentials, discovery
\* sends no search request and returns the empty list, the target is scraped
\* all the same, its record is in the mapping and in the content handed to
\* the analysis, and the run gets to the analysis and to the display.
C14_RunsWithoutSearchCredentials ==
    /\ []WithoutSearch
    /\ (NoSearchRun /\ mpc = "start") ~> (NoSearchRun /\ apc = "done" /\ mpc = "display")

C14_Witness ==
    /\ NoSearchRun /\ mpc = "returned" /\ ret = [status |-> CompleteMessage]
    /\ requests = <<>> /\ competitors = <<>>
    /\ TargetHandedOver /\ apc = "done"
    /\ "error" \in DOMAIN target_company_data

(***************************************************************************)
(* The content handed to the prompts, built on its own in either revision. *)
(***************************************************************************)
\* main.py: the text as the sequence of its labelled sections
prepare_content_for_analysis(cname, company_data, comp_data) ==
    <<Section("COMPANY", cname)>>
    \o (IF "homepage" \in DOMAIN company_data
        THEN <<Section("HOMEPAGE", company_data.homepage)>> ELSE <<>>)
    \o (IF "pricing" \in DOMAIN company_data /\ Truthy(company_data.pricing)
        THEN <<Section("PRICING", company_data.pricing)>> ELSE <<>>)
    \o (IF "features" \in DOMAIN company_data /\ Truthy(company_data.features)
        THEN <<Section("FEATURES", company_data.features)>> ELSE <<>>)
    \o (IF "about" \in DOMAIN company_data /\ Truthy(company_data.about)
        THEN <<Section("ABOUT", company_data.about)>> ELSE <<>>)
    \o (IF comp_data # EmptyDict
        THEN <<Section("COMPETITORS", None)>> \o CompetitorSections(comp_data)
        ELSE <<>>)

\* a site whose root answers and whose sub-pages do not
RootOnlySite ==
    [p \in {"root"} \cup SubPaths |->
        IF p = "root" THEN Outcome("no", 200, HomeFull)
        ELSE Outcome("error", 404, BlankPage)]

ContentSites == {DownSite, UpSite, RootOnlySite}
ContentRecords == {scrape_company_comprehensive(s) : s \in ContentSites}
GammaCo == Str(<<"G", "a", "m", "m", "a">>)

\* what the scraping phase can hand over for up to two competitors
ScrapedMappings ==
    {EmptyDict}
    \cup {DictSet(EmptyDict, BetaInc, r) : r \in ContentRecords}
    \cup {DictSet(DictSet(EmptyDict, BetaInc, r1), GammaCo, r2) :
            r1 \in ContentRecords, r2 \in ContentRecords}

\* the arguments main() passes: in competitive_research.py the mapping holds
\* the target too (line 94), in main.py it holds the competitors only
InitContent ==
    /\ fn \in {"prepare_competitive_content", "prepare_content_for_analysis"}
    /\ \E target \in ContentRecords, scraped \in ScrapedMappings :
        arg = [company_name |-> Acme,
               company_data |-> target,
               competitor_data |-> IF fn = "prepare_competitive_content"
                                   THEN DictSet(scraped, Acme, target)
                                   ELSE scraped]
    /\ ret = NotRun
    /\ DiscoverIdle /\ ScrapeIdle /\ PipelineIdle /\ AnalyzeIdle /\ TableIdle

PrepareCompetitive ==
    /\ fn = "prepare_competitive_content" /\ ret = NotRun
    /\ ret' = Returned(prepare_competitive_content(arg.company_name, arg.company_data,
                                                   arg.competitor_data))
    /\ UNCHANGED <<fn, arg>>
    /\ UNCHANGED notCallVars

PrepareForAnalysis ==
    /\ fn = "prepare_content_for_analysis" /\ ret = NotRun
    /\ ret' = Returned(prepare_content_for_analysis(arg.company_name, arg.company_data,
                                                    arg.competitor_data))
    /\ UNCHANGED <<fn, arg>>
    /\ UNCHANGED notCallVars

NextContent == PrepareCompetitive \/ PrepareForAnalysis

SpecContent == InitContent /\ [][NextContent]_vars

ContentBuilt ==
    /\ fn \in {"prepare_competitive_content", "prepare_content_for_analysis"}
    /\ ret # NotRun

\* the text holds the record, and with it the record's error text
Shows(text, scraped) == \E i \in 1..Len(text) : text[i].value = scraped

\* the companies of the call whose root fetch failed, with their records
FailedCompanies ==
    (IF "error" \in DOMAIN arg.company_data
     THEN {[key |-> arg.company_name, value |-> arg.company_data]} ELSE {})
    \cup {arg.competitor_data[i] : i \in {j \in 1..Len(arg.competitor_data) :
                                           "error" \in DOMAIN arg.competitor_data[j].value}}

\* C15: in either revision the content built for the prompts holds the error
\* text of every company whose root fetch failed, the target's as well as a
\* competitor's.
C15_ErrorMarkersInContent ==
    ContentBuilt => \A c \in FailedCompanies : Shows(ret.value, c.value)

\* an exception has left a stage of the run: here the display
Escaped == fn = "main" /\ tpc = "raised"

HardFailure == [error |-> Str(FailedPrefix \o NoAttribute)]

CaughtAtTheTop ==
    /\ mpc # "raised"
    /\ Escaped /\ mpc = "returned" => ret = HardFailure
    /\ fn = "main" /\ ret = HardFailure => Escaped
    /\ fn = "main" /\ ret = [status |-> CompleteMessage] => tpc = "done"

\* after the exception the only step is the one to the except clause
NothingAfterEscape ==
    Escaped => /\ UNCHANGED <<discoverVars, scrapeVars, analyzeVars, tableVars>>
               /\ UNCHANGED <<si, target_company_data, competitor_data>>
               /\ mpc = "display" /\ mpc' = "returned"

JsonValue(v) == IF v = None THEN [json |-> "null"] ELSE [json |-> "string", s |-> v.s]

ExportedAnalyses == {"overview", "pricing", "features", "swot"}

\* variant of the code: a key the bundle lacks is left out of the document
export_data_omit(cname, now, analysis_results) ==
    [k \in {"company", "timestamp"} \cup (ExportedAnalyses \cap DOMAIN analysis_results) |->
        IF k = "company" THEN JsonValue(cname)
        ELSE IF k = "timestamp" THEN JsonValue(now)
        ELSE JsonValue(analysis_results[k])]

\* lines 1098-1108: export_data, as json.dumps writes it
export_data(cname, now, analysis_results) ==
    [company   |-> JsonValue(cname),
     timestamp |-> JsonValue(now),
     overview  |-> JsonValue(Get(analysis_results, "overview", EmptyStr)),
     pricing   |-> JsonValue(Get(analysis_results, "pricing", EmptyStr)),
     features  |-> JsonValue(Get(analysis_results, "features", EmptyStr)),
     swot      |-> JsonValue(Get(analysis_results, "swot", EmptyStr))]

RateLimited == Str(ErrorPrefix \o RateLimit.s)
AnalysisKeys == {AnalysisKinds[i] : i \in 1..Len(AnalysisKinds)}

\* the bundles analyze_competitive_landscape returns: six texts, each the
\* answer or an in-band error; the bundle of its except clause; and bundles
\* that lack some of the keys
ExportBundles ==
    [AnalysisKeys -> {Report, RateLimited}]
    \cup {[error |-> Str(<<"A", "n", "a", "l", "y", "s", "i", "s", " ", "f", "a", "i", "l", "e", "d", ":", " ">>)]}
    \cup {[overview |-> Report], [overview |-> None, swot |-> Report]}

Noon == Str(<<"2", "0", "2", "4", "-", "0", "1", "-", "0", "1", "T", "1", "2", ":", "0", "0", ":", "0", "0">>)

InitExport ==
    /\ fn = "display_export_options"
    /\ arg \in [company_name : {Acme}, now : {Noon}, analysis_results : ExportBundles]
    /\ ret = NotRun
    /\ DiscoverIdle /\ ScrapeIdle /\ PipelineIdle /\ AnalyzeIdle /\ TableIdle

ExportJson ==
    /\ fn = "display_export_options" /\ ret = NotRun
    /\ ret' = Returned(export_data(arg.company_name, arg.now, arg.analysis_results))
    /\ UNCHANGED <<fn, arg>>
    /\ UNCHANGED notCallVars

NextExport == ExportJson

SpecExport == InitExport /\ [][NextExport]_vars

Exported == fn = "display_export_options" /\ ret # NotRun

\* the document holds the bundle's value under the key, "" when the bundle
\* has no such key
ExportsKey(k) ==
    /\ k \in DOMAIN ret.value
    /\ ret.value[k] = JsonValue(Get(arg.analysis_results, k, EmptyStr))

ExportsCompanyAndTime ==
    /\ ret.value.company = JsonValue(arg.company_name)
    /\ ret.value.timestamp = JsonValue(arg.now)

\* C17, as the code has it: the exported document has exactly the keys
\* company, timestamp, overview, pricing, features and swot, for every
\* bundle; each of the four analysis keys holds the bundle's value, in-band
\* error strings included, and the empty string when the bundle lacks the key.
C17_ExportHasFourAnalysesCompanyAndTime ==
    Exported =>
        /\ DOMAIN ret.value = {"company", "timestamp"} \cup ExportedAnalyses
        /\ ExportsCompanyAndTime
        /\ \A k \in ExportedAnalyses : ExportsKey(k)

\* C17 as stated: the document has the six analysis keys, company and timestamp
C17_AsStated ==
    Exported =>
        /\ DOMAIN ret.value = {"company", "timestamp"} \cup AnalysisKeys
        /\ ExportsCompanyAndTime
        /\ \A k \in AnalysisKeys : ExportsKey(k)

C17_Witness ==
    /\ Exported
    /\ DOMAIN arg.analysis_results = {"error"}
    /\ \A k \in ExportedAnalyses : ret.value[k] = [json |-> "string", s |-> <<>>]

(***************************************************************************)
(* More claims about discover_competitors_comprehensive.                   *)
(***************************************************************************)
Comprehensive == rev = "comprehensive" /\ Discovered

\* the places of raw_competitors that hold the first candidate of a name
Firsts ==
    {i \in 1..Len(raw_competitors) :
        \A j \in 1..(i - 1) : raw_competitors[j].name # raw_competitors[i].name}

\* the k-th of them
NthFirst(k) == CHOOSE i \in Firsts : Cardinality({j \in Firsts : j < i}) = k - 1

\* C18: discover_competitors_comprehensive returns the first candidates of
\* the first five distinct names, in discovery order: entry k of the output
\* is the raw candidate at the k-th place that holds a name for the first
\* time, so a raw candidate is left out only when an earlier one has its
\* name or five entries are already kept.
C18_FirstFiveDistinctInOrder ==
    Comprehensive =>
        /\ Len(competitors) = IF Cardinality(Firsts) < MaxCompetitors
                              THEN Cardinality(Firsts) ELSE MaxCompetitors
        /\ \A k \in 1..Len(competitors) : competitors[k] = raw_competitors[NthFirst(k)]

\* six names found, one of them twice with two urls, the sixth cut off
C18_Witness ==
    /\ Comprehensive
    /\ Cardinality(Firsts) > MaxCompetitors
    /\ \E i \in Firsts : \E j \in (i + 1)..Len(raw_competitors) :
        /\ raw_competitors[j].name = raw_competitors[i].name
        /\ raw_competitors[j].url # raw_competitors[i].url
        /\ \E k \in 1..Len(competitors) : competitors[k] = raw_competitors[i]

RequestsTo(backend) == {k \in 1..Len(requests) : requests[k].backend = backend}

\* what backend A contributed: its candidates carry the sources serpapi and
\* people_also_ask
FromSerpapi ==
    {i \in 1..Len(raw_competitors) : raw_competitors[i].source # "google_search"}

SerpapiThenGoogle ==
    /\ RequestsTo("serpapi") # {} => creds.serpapi_key
    /\ \A a \in RequestsTo("serpapi"), b \in RequestsTo("google") : a < b
    /\ dpc # "serpapi" /\ creds.serpapi_key => requests # <<>> /\ requests[1].backend = "serpapi"
    /\ Discovered =>
        (RequestsTo("google") # {}
            <=> /\ Cardinality(FromSerpapi) < BackupThreshold
                /\ creds.google_api_key /\ creds.google_cse_id)

\* C19: in discover_competitors_comprehensive SerpAPI is asked first, and
\* only with its key; Google Custom Search is asked exactly when fewer than
\* 3 raw candidates were there after SerpAPI was done or skipped and both
\* the Google key and the engine id are present; no Google request comes
\* before a SerpAPI request.
C19_SerpapiFirstGoogleAsBackup ==
    rev = "comprehensive" => SerpapiThenGoogle

\* SerpAPI gave two candidates in three requests, so Google was asked
C19_Witness ==
    /\ Comprehensive
    /\ Cardinality(RequestsTo("serpapi")) = SerpapiQueries
    /\ Cardinality(FromSerpapi) = 2
    /\ Cardinality(RequestsTo("google")) = GoogleQueries

\* the requests of a backend carry the templates 1, 2, ... in this order
TemplatesInOrder(backend) ==
    \A k \in RequestsTo(backend) :
        requests[k].query = Cardinality({j \in RequestsTo(backend) : j <= k})

RequestBudget ==
    /\ Cardinality(RequestsTo("serpapi")) <= SerpapiQueries
    /\ Cardinality(RequestsTo("google")) <= GoogleQueries
    /\ TemplatesInOrder("serpapi") /\ TemplatesInOrder("google")

\* a step that sends a request to the backend asked last: the candidates
\* collected before it are fewer than 5
AnotherRequestOnlyBelowFive ==
    (/\ rev = "comprehensive"
     /\ requests # <<>> /\ Len(requests') = Len(requests) + 1
     /\ requests'[Len(requests')].backend = requests[Len(requests)].backend)
        => Len(raw_competitors) < EnoughCandidates

\* C20: a run of discover_competitors_comprehensive sends at most 3 requests
\* to SerpAPI and at most 2 to Google Custom Search, with the query templates
\* taken in their order from the first; a backend gets no further request
\* once 5 raw candidates have been collected.
C20_RequestBudgetAndEarlyStop ==
    /\ [](rev = "comprehensive" => RequestBudget)
    /\ [][AnotherRequestOnlyBelowFive]_vars

\* SerpAPI was left after its first or second request: 5 candidates were there
C20_Witness ==
    /\ Comprehensive /\ creds.serpapi_key
    /\ Cardinality(RequestsTo("serpapi")) < SerpapiQueries
    /\ Len(raw_competitors) >= EnoughCandidates
    /\ RequestsTo("google") = {}

(***************************************************************************)
(* extract_competitor_name_from_title on its own.                          *)
(***************************************************************************)
MaxWords == 3

\* the words the titles tried are made of
TitleWords == {<<"B", "e", "t", "a">>, <<"A", "c", "m", "e">>, <<"a", "c", "m", "e">>, <<"v", "s">>, <<"V", "S">>, <<"-">>}

RECURSIVE WordSeqs(_)
WordSeqs(n) ==
    IF n = 0 THEN {<<>>}
    ELSE WordSeqs(n - 1)
         \cup {Append(ws, Str(w)) : ws \in {x \in WordSeqs(n - 1) : Len(x) = n - 1},
                                    w \in TitleWords}

\* the words joined by single spaces
Titles == {Join(ws, <<" ">>) : ws \in WordSeqs(MaxWords)}

InitTitle ==
    /\ fn = "extract_competitor_name_from_title"
    /\ arg \in [title : Titles, original_company : {Acme}]
    /\ ret = NotRun
    /\ DiscoverIdle /\ ScrapeIdle /\ PipelineIdle /\ AnalyzeIdle /\ TableIdle

ExtractFromTitle ==
    /\ fn = "extract_competitor_name_from_title" /\ ret = NotRun
    /\ ret' = extract_competitor_name_from_title(arg.title, arg.original_company)
    /\ UNCHANGED <<fn, arg>>
    /\ UNCHANGED notCallVars

NextTitle == ExtractFromTitle

SpecTitle == InitTitle /\ [][NextTitle]_vars

TitleNamed == fn = "extract_competitor_name_from_title" /\ ret # NotRun

VsSeparator == <<" ", "v", "s", " ">>

RECURSIVE SplitAnyCase(_, _, _)
\* the sides of s around the occurrences of sep written in any letter case
SplitAnyCase(s, sep, cur) ==
    IF s = <<>> THEN <<Str(cur)>>
    ELSE IF StartsWith(LowerChars(s), sep)
         THEN <<Str(cur)>> \o SplitAnyCase(SubSeq(s, Len(sep) + 1, Len(s)), sep, <<>>)
         ELSE SplitAnyCase(Tail(s), sep, Append(cur, Head(s)))

SidesOf(title) ==
    {SplitAnyCase(title.s, VsSeparator, <<>>)[i] :
        i \in 1..Len(SplitAnyCase(title.s, VsSeparator, <<>>))}

FirstTwoTokens(title) ==
    IF Split(title) = <<>> THEN EmptyStr ELSE Join(Take(Split(title), 2), <<" ">>)

\* C21: for a title with a ' vs ' separator in any letter case the result of
\* extract_competitor_name_from_title is a side of the split that does not
\* equal the company name case-insensitively; for any other title it is the
\* first two whitespace-delimited tokens joined by one space, and the empty
\* string when the title has no token.
C21_OtherSideOfVs ==
    TitleNamed =>
        IF ContainsChars(LowerChars(arg.title.s), VsSeparator)
        THEN \E side \in SidesOf(arg.title) :
                /\ ret = Strip(side)
                /\ Lower(ret) # Lower(arg.original_company)
        ELSE ret = FirstTwoTokens(arg.title)

(***************************************************************************)
(* More claims about the scraper (checked under SpecScrape).               *)
(***************************************************************************)
RECURSIVE pricing_fetches(_, _)
\* the URLs the loop of scrape_pricing_info requests, in order
pricing_fetches(s, pricing_urls) ==
    IF pricing_urls = <<>> THEN <<>>
    ELSE <<Head(pricing_urls)>>
         \o (IF /\ ~Raised(s[Head(pricing_urls)])
                /\ Truthy(extract_pricing_from_page(s[Head(pricing_urls)].page))
             THEN <<>>
             ELSE pricing_fetches(s, Tail(pricing_urls)))

RECURSIVE features_fetches(_, _)
\* the URLs the loop of scrape_features_info requests, in order
features_fetches(s, feature_urls) ==
    IF feature_urls = <<>> THEN <<>>
    ELSE <<Head(feature_urls)>>
         \o (IF /\ ~Raised(s[Head(feature_urls)])
                /\ Truthy(extract_features_from_page(s[Head(feature_urls)].page))
             THEN <<>>
             ELSE features_fetches(s, Tail(feature_urls)))

RootScraped == Scraped /\ "error" \notin DOMAIN record

\* the candidates of the field whose fetch returns a page with non-empty data
WithData(field) ==
    {k \in 1..Len(FieldPaths(field)) :
        /\ ~Raised(site[FieldPaths(field)[k]])
        /\ Truthy(Extracted(field, site[FieldPaths(field)[k]].page))}

FirstUsableSets(field, fetches) ==
    IF WithData(field) = {}
    THEN record[field] = None /\ fetches = FieldPaths(field)
    ELSE LET k == CHOOSE i \in WithData(field) : \A j \in WithData(field) : i <= j
         IN  /\ record[field] = Extracted(field, site[FieldPaths(field)[k]].page)
             /\ fetches = SubSeq(FieldPaths(field), 1, k)

\* the about page gave something: one of its three texts is non-empty
AboutHasData(about) ==
    about.description # EmptyStr \/ about.mission # EmptyStr \/ about.team_info # EmptyStr

\* C22: for pricing and features the candidate sub-paths are fetched in their
\* order up to the first whose fetch returns and gives non-empty data, which
\* sets the field; with no such candidate all are fetched and the field is
\* None.  A field is present only with non-empty data: the about field is
\* None when the about page is fetched and matches no selector.
C22_FirstUsableSubPageSetsField ==
    RootScraped =>
        /\ FirstUsableSets("pricing", pricing_fetches(site, FieldPaths("pricing")))
        /\ FirstUsableSets("features", features_fetches(site, FieldPaths("features")))
        /\ record.about # None => ~Raised(site["about"]) /\ AboutHasData(record.about)

(***************************************************************************)
(* The two feature extractors on their own.  The matched elements of a     *)
(* page are a run of elements of one kind followed by a run of another;    *)
(* the text of an element starts with a letter that tells its place.       *)
(***************************************************************************)
MaxRun == 21

PlaceLetters == <<"a", "b", "c", "d", "e", "f", "g", "h", "i", "j", "k", "l", "m", "n", "o", "p", "q", "r", "s", "t", "u", "v", "w", "x", "y", "z", "A", "B", "C", "D", "E", "F", "G", "H", "I", "J", "K", "L", "M", "N", "O", "P", "Q", "R", "S", "T", "U", "V", "W", "X", "Y", "Z">>

Filler(n) == [i \in 1..n |-> "x"]

ElementKinds == {"short", "padded", "blank", "len99", "len100", "len149", "len150"}

\* the text of the element of this kind at place i
ElementText(kind, i) ==
    CASE kind = "short"  -> Str(<<PlaceLetters[i]>>)
      [] kind = "padded" -> Str(<<" ", PlaceLetters[i], "\n">>)
      [] kind = "blank"  -> Str(<<" ">>)
      [] kind = "len99"  -> Str(<<PlaceLetters[i]>> \o Filler(98))
      [] kind = "len100" -> Str(<<PlaceLetters[i]>> \o Filler(99))
      [] kind = "len149" -> Str(<<PlaceLetters[i]>> \o Filler(148))
      [] kind = "len150" -> Str(<<PlaceLetters[i]>> \o Filler(149))

FeatureElements(kind1, n, kind2, m) ==
    [i \in 1..(n + m) |-> IF i <= n THEN ElementText(kind1, i) ELSE ElementText(kind2, i)]

FeaturePages ==
    {Page(None, NoSel, FeatureElements(k1, n, k2, m), <<>>) :
        k1 \in ElementKinds, n \in 0..MaxRun, k2 \in ElementKinds, m \in 0..MaxRun}

InitFeatures ==
    /\ fn \in {"extract_features_from_homepage", "extract_features_from_page"}
    /\ arg \in FeaturePages
    /\ ret = NotRun
    /\ DiscoverIdle /\ ScrapeIdle /\ PipelineIdle /\ AnalyzeIdle /\ TableIdle

ExtractHomepageFeatures ==
    /\ fn = "extract_features_from_homepage" /\ ret = NotRun
    /\ ret' = extract_features_from_homepage(arg)
    /\ UNCHANGED <<fn, arg>>
    /\ UNCHANGED notCallVars

ExtractPageFeatures ==
    /\ fn = "extract_features_from_page" /\ ret = NotRun
    /\ ret' = extract_features_from_page(arg)
    /\ UNCHANGED <<fn, arg>>
    /\ UNCHANGED notCallVars

NextFeatures == ExtractHomepageFeatures \/ ExtractPageFeatures

SpecFeatures == InitFeatures /\ [][NextFeatures]_vars

FromHomepage == fn = "extract_features_from_homepage" /\ ret # NotRun
FromPage == fn = "extract_features_from_page" /\ ret # NotRun

\* the places of the matched elements whose trimmed text is non-empty and
\* shorter than maxLen
QualifyingPlaces(maxLen) ==
    {i \in 1..Len(arg.featureEls) :
        /\ Strip(arg.featureEls[i]) # EmptyStr
        /\ Len(Strip(arg.featureEls[i]).s) < maxLen}

\* the k-th of the places, in document order
NthPlace(places, k) == CHOOSE i \in places : Cardinality({j \in places : j < i}) = k - 1

EntriesWithin(list, maxLen, cap) ==
    /\ Len(list) <= cap
    /\ \A k \in 1..Len(list) : list[k] # EmptyStr /\ Len(list[k].s) < maxLen

\* C23: a homepage features list has at most 10 entries, each non-empty and
\* shorter than 100 characters; a features-page list has at most 20 entries,
\* each non-empty and shorter than 150 characters, and holds the first 20
\* qualifying texts in document order; a features page with no qualifying
\* text gives None.
C23_FeatureListBounds ==
    /\ FromHomepage =>
        /\ ret.t = "list"
        /\ EntriesWithin(ret.l, HomepageFeatureMaxLen, HomepageFeatureScan)
    /\ FromPage =>
        IF QualifyingPlaces(PageFeatureMaxLen) = {} THEN ret = None
        ELSE /\ ret.t = "list"
             /\ EntriesWithin(ret.l, PageFeatureMaxLen, PageFeatureCap)
             /\ Len(ret.l) = IF Cardinality(QualifyingPlaces(PageFeatureMaxLen)) < PageFeatureCap
                             THEN Cardinality(QualifyingPlaces(PageFeatureMaxLen))
                             ELSE PageFeatureCap
             /\ \A k \in 1..Len(ret.l) :
                  ret.l[k] = Strip(arg.featureEls[NthPlace(QualifyingPlaces(PageFeatureMaxLen), k)])

\* a features page with 150-character texts first and then 21 texts of 149
C23_Witness ==
    /\ FromPage
    /\ Cardinality(QualifyingPlaces(PageFeatureMaxLen)) > PageFeatureCap
    /\ Len(arg.featureEls) > Cardinality(QualifyingPlaces(PageFeatureMaxLen))
    /\ Len(ret.l) = PageFeatureCap
    /\ Len(ret.l[PageFeatureCap].s) = PageFeatureMaxLen - 1

(***************************************************************************)
(* extract_text_by_selectors on its own.                                   *)
(***************************************************************************)
\* the selector lists of extract_homepage_content and extract_about_content
SelectorLists ==
    {<<"h1", ".hero-title", ".main-headline">>,
     <<"p", ".description", ".intro">>,
     <<".about-text", ".company-description", "p">>,
     <<".mission", ".vision">>}

\* the text of the first element a selector matches
MatchedTexts == {Str(<<>>), Str(<<" ">>), Str(<<"T">>), Str(<<" ", "U", "\n">>)}

\* the pages: each selector matches nothing or an element with one of the texts
SelectorPages(selectors) ==
    {Page(None, sel, <<>>, <<>>) :
        sel \in UNION {[chosen -> MatchedTexts] :
                        chosen \in SUBSET {selectors[i] : i \in 1..Len(selectors)}}}

InitSelectors ==
    /\ fn = "extract_text_by_selectors"
    /\ \E selectors \in SelectorLists : \E soup \in SelectorPages(selectors) :
        arg = [soup |-> soup, selectors |-> selectors]
    /\ ret = NotRun
    /\ DiscoverIdle /\ ScrapeIdle /\ PipelineIdle /\ AnalyzeIdle /\ TableIdle

ExtractText ==
    /\ fn = "extract_text_by_selectors" /\ ret = NotRun
    /\ ret' = extract_text_by_selectors(arg.soup, arg.selectors)
    /\ UNCHANGED <<fn, arg>>
    /\ UNCHANGED notCallVars

NextSelectors == ExtractText

SpecSelectors == InitSelectors /\ [][NextSelectors]_vars

TextExtracted == fn = "extract_text_by_selectors" /\ ret # NotRun

\* the places of the selectors that match an element with non-empty trimmed text
WithText ==
    {i \in 1..Len(arg.selectors) :
        /\ arg.selectors[i] \in DOMAIN arg.soup.sel
        /\ Strip(arg.soup.sel[arg.selectors[i]]) # EmptyStr}

\* C24: extract_text_by_selectors returns the trimmed text of the first
\* selector, in list order, whose first matching element has non-empty
\* trimmed text, skipping selectors that match nothing or an element with
\* empty text; with no such selector it returns the empty string, not None.
C24_FirstSelectorWithText ==
    TextExtracted =>
        /\ ret # None
        /\ IF WithText = {} THEN ret = EmptyStr
           ELSE \E i \in WithText :
                /\ \A j \in WithText : i <= j
                /\ ret = Strip(arg.soup.sel[arg.selectors[i]])

\* the first selector matches an element holding only a space, the second
\* nothing, the third a padded text
C24_Witness ==
    /\ TextExtracted
    /\ Len(arg.selectors) = 3
    /\ DOMAIN arg.soup.sel = {arg.selectors[1], arg.selectors[3]}
    /\ arg.soup.sel[arg.selectors[1]] = Str(<<" ">>)
    /\ arg.soup.sel[arg.selectors[3]] = Str(<<" ", "U", "\n">>)
    /\ ret = Str(<<"U">>)

(***************************************************************************)
(* More claims about analyze_competitive_landscape (under SpecAnalyze).    *)
(***************************************************************************)
\* the requests sent so far are for the first kinds, one each, in order
CallsFollowKinds ==
    /\ Len(calls) <= Len(AnalysisKinds)
    /\ \A k \in 1..Len(calls) : calls[k].kind = AnalysisKinds[k]

\* a step sends at most one request, after the ones before it have returned
OneCallAtATime ==
    calls' = calls \/ (Len(calls') = Len(calls) + 1 /\ SubSeq(calls', 1, Len(calls)) = calls)

\* C25: a run of analyze_competitive_landscape sends exactly six
\* chat-completion requests, one for each of overview, structured_analysis,
\* table_data, pricing, features and swot, in this order and one after the
\* other; a request that failed is not sent again and the requests after it
\* are sent all the same.
C25_SixSequentialRequests ==
    /\ [](CallsFollowKinds /\ (Analyzed => Len(calls) = Len(AnalysisKinds)))
    /\ [][OneCallAtATime]_vars

\* the second request raised, the fifth came back malformed, the others answered
C25_Witness ==
    /\ Analyzed
    /\ Len(calls) = 6
    /\ calls[2].outcome = ChatRaises(RateLimit)
    /\ calls[5].outcome = ChatMalformed
    /\ \A k \in {1, 3, 4, 6} : calls[k].outcome = ChatAnswers(Report)

(***************************************************************************)
(* A whole run of main() with search answers that name more companies      *)
(* than scrape_competitors_comprehensive takes.                            *)
(***************************************************************************)
StageSerpResponses == {SerpA, SerpB}
StageGoogleResponses == {GoogleC}

NextStages ==
    \/ RefuseRun
    \/ ExtractName
    \/ SerpapiQuery(StageSerpResponses)
    \/ SerpapiSkip
    \/ GoogleQuery(StageGoogleResponses)
    \/ GoogleSkip
    \/ ReturnUnique
    \/ ScrapeTarget(PipelineSites)
    \/ ScrapeCompetitor(PipelineSites)
    \/ AddTarget
    \/ CallAnalysis
    \/ PrepareContent
    \/ AnalyzeCall(RunOutcomes)
    \/ ReturnAnalyses
    \/ CallDisplay
    \/ ParseTable
    \/ TargetRow
    \/ CompetitorRow
    \/ ShowTable
    \/ FinishRun
    \/ CatchAll

SpecStages == InitRun /\ [][NextStages]_vars

(***************************************************************************)
(* More claims about a whole run of main() (SpecStages) .                *)
(***************************************************************************)
\* how many competitors have been scraped
ScrapedCompetitors == si - 1

AllScraped ==
    /\ target_company_data # NotRun
    /\ dpc = "done"
    /\ ScrapedCompetitors = Len(Take(competitors, ScrapeLimit))
    /\ mpc \in {"analyze", "display", "returned"}

StagesInOrder ==
    /\ mpc = "start" => company_name = NotRun /\ requests = <<>> /\ dpc = "idle"
    /\ company_name = NotRun => requests = <<>>
    /\ target_company_data = NotRun => ScrapedCompetitors = 0 /\ mpc \in {"start", "discover", "returned"}
    /\ target_company_data # NotRun => dpc = "done"
    /\ ScrapedCompetitors <= ScrapeLimit
    /\ apc # "idle" => AllScraped
    /\ calls # <<>> => apc \in {"calls", "done"}
    /\ tpc # "idle" => apc = "done" /\ Len(calls) = Len(AnalysisKinds)

\* a step of one stage leaves the earlier stages as they were
NoStepBack ==
    /\ requests' # requests => target_company_data = NotRun /\ company_name # NotRun
    /\ si' # si => target_company_data # NotRun /\ calls = <<>>
    /\ target_company_data' # target_company_data => dpc = "done" /\ calls = <<>>
    /\ calls' # calls => AllScraped /\ tpc = "idle"
    /\ tableVars' # tableVars => calls' = calls /\ Len(calls) = Len(AnalysisKinds)

\* C26: in every run of main() the stages come one after the other: the
\* name, then the search requests, then the target's scrape, then at most 5
\* competitors, then the content and the six chat requests, then the
\* display.  No search request follows the first scrape, no competitor is
\* scraped before the target, no chat request is sent before the last
\* scrape, nothing is displayed before the sixth chat call has returned.
C26_StagesStrictlySequential ==
    []StagesInOrder /\ [][NoStepBack]_vars

\* a completed run with search requests, five scraped competitors, six chat
\* calls and the table shown
C26_Witness ==
    /\ fn = "main" /\ mpc = "returned" /\ tpc = "done"
    /\ requests # <<>> /\ ScrapedCompetitors = ScrapeLimit
    /\ Len(calls) = 6 /\ Len(table_data) = 1 + Len(competitors)

(***************************************************************************)
(* Discovery for a company whose name has two words ("my-co.com").         *)
(***************************************************************************)
MyCo == Str(<<"M", "y", " ", "C", "o">>)

\* titles that spell the company's name with a separator between the words
SerpMy ==
    Json([organic_results |->
            <<Item(Str(<<"M", "y", " ", "-", " ", "C", "o", " ", "P", "r", "i", "c", "i", "n", "g">>), Str(<<"u", "1">>)),
              Item(Str(<<"M", "y", " ", "C", "o", " ", "v", "s", " ", "B", "e", "t", "a">>), Str(<<"u", "2">>)),
              Item(Str(<<"B", "e", "t", "a", " ", "|", " ", "C", "R", "M">>), Str(<<"u", "3">>))>>,
          people_also_ask |->
            <<[question |-> Str(<<"M", "y", " ", "C", "o", " ", "v", "s", " ", "Z", "e", "t", "a", "?">>)]>>])

GoogleMy ==
    Json([items |->
            <<Item(Str(<<"m", "y", " ", " ", "c", "o">>), Str(<<"u", "4">>)),
              Item(Str(<<"G", "a", "m", "m", "a">>), Str(<<"u", "3">>))>>])

NameSerpResponses == {SerpA, SerpMy}
NameGoogleResponses == {GoogleC, GoogleMy}

InitNames ==
    /\ rev = "comprehensive"
    /\ creds \in Credentials
    /\ company_name \in {Acme, MyCo}
    /\ dpc = "serpapi"
    /\ qi = 1
    /\ raw_competitors = <<>>
    /\ requests = <<>>
    /\ competitors = NotRun
    /\ ScrapeIdle /\ PipelineIdle /\ AnalyzeIdle /\ TableIdle /\ CallIdle

NextNames ==
    \/ SerpapiQuery(NameSerpResponses)
    \/ SerpapiSkip
    \/ GoogleQuery(NameGoogleResponses)
    \/ GoogleSkip
    \/ ReturnUnique

SpecNames == InitNames /\ [][NextNames]_vars

(***************************************************************************)
(* Claims about the names of the candidates (checked under SpecNames).     *)
(***************************************************************************)
\* C27: no candidate returned by discover_competitors_comprehensive has a
\* name that is, letter case aside, the name of the target company.
C27_NoCandidateNamedLikeTarget ==
    Discovered =>
        \A i \in 1..Len(competitors) :
            LowerChars(competitors[i].name.s) # LowerChars(company_name.s)

(***************************************************************************)
(* From the URL to the prompts: main() up to the return of                 *)
(* analyze_competitive_landscape, for a one-word and a two-word company.   *)
(***************************************************************************)
MyCoUrl == Str(<<"h", "t", "t", "p", "s", ":", "/", "/", "m", "y", "-", "c", "o", ".", "c", "o", "m">>)

\* line 488: list(competitor_data.keys()) if competitor_data else []
competitor_names(comp_data) ==
    IF comp_data # EmptyDict THEN [i \in 1..Len(comp_data) |-> comp_data[i].key] ELSE <<>>

\* lines 491-629: what the f-string of a prompt interpolates
analysis_prompt(kind, cname, comp_data, text) ==
    [kind |-> kind, company |-> cname, competitors |-> competitor_names(comp_data),
     content |-> text]

InitHandover ==
    /\ fn = "main"
    /\ arg \in [company_url : {AcmeUrl, MyCoUrl}, openai_api_key : {TRUE}]
    /\ ret = NotRun
    /\ rev = "comprehensive" /\ creds \in RunCredentials /\ company_name = NotRun
    /\ dpc = "idle" /\ qi = 1 /\ raw_competitors = <<>> /\ requests = <<>>
    /\ competitors = NotRun
    /\ mpc = "start" /\ si = 1
    /\ target_company_data = NotRun /\ competitor_data = NotRun
    /\ ScrapeIdle /\ AnalyzeIdle /\ TableIdle

NextHandover ==
    \/ ExtractName
    \/ SerpapiQuery(NameSerpResponses)
    \/ SerpapiSkip
    \/ GoogleQuery(NameGoogleResponses)
    \/ GoogleSkip
    \/ ReturnUnique
    \/ ScrapeTarget(PipelineSites)
    \/ ScrapeCompetitor(PipelineSites)
    \/ AddTarget
    \/ CallAnalysis
    \/ PrepareContent
    \/ AnalyzeCall({ChatAnswers(Report)})
    \/ ReturnAnalyses

SpecHandover == InitHandover /\ [][NextHandover]_vars

(***************************************************************************)
(* Claims about the mapping handed to the analysis (under SpecHandover).   *)
(***************************************************************************)
\* analyze_competitive_landscape has built the content and the prompts
HandedOver == fn = "main" /\ apc \in {"calls", "done"}

\* the names of the competitors that were scraped, in order
ScrapedNames ==
    [i \in 1..Len(Take(competitors, ScrapeLimit)) |-> competitors[i].name]

NamesakeScraped == \E i \in 1..Len(ScrapedNames) : ScrapedNames[i] = company_name

\* where line 94 stores the target: the place of the competitor of the same
\* name if one was scraped, the end of the mapping otherwise
TargetPlace ==
    IF NamesakeScraped
    THEN CHOOSE i \in 1..Len(ScrapedNames) : ScrapedNames[i] = company_name
    ELSE Len(ScrapedNames) + 1

TargetEntry == [key |-> company_name, value |-> target_company_data]

\* the prompts of the calls made so far
PromptsSent ==
    {analysis_prompt(calls[i].kind, company_name, competitor_data, content) :
        i \in 1..Len(calls)}

TargetAmongCompetitors ==
    /\ Len(competitor_data) = IF NamesakeScraped THEN Len(ScrapedNames)
                                                 ELSE Len(ScrapedNames) + 1
    /\ competitor_data[TargetPlace] = TargetEntry
    /\ \A i \in 1..Len(competitor_data) :
        i # TargetPlace => competitor_data[i].key = ScrapedNames[IF NamesakeScraped \/ i < TargetPlace THEN i ELSE i - 1]
    /\ \A p \in PromptsSent :
        \E i \in 1..Len(p.competitors) : p.competitors[i] = company_name
    /\ content[1] = Section("TARGET COMPANY", company_name)
    /\ LET start == Len(content) - Len(competitor_data)
       IN  /\ start >= 1
           /\ content[start].label = "COMPETITORS"
           /\ content[start + TargetPlace] = Section(company_name, target_company_data)

ScannedPlaces ==
    {i \in QualifyingPlaces(HomepageFeatureMaxLen) : i <= HomepageFeatureScan}

\* the trimmed texts at the given places, in document order
TextsAt(places) ==
    [k \in 1..Cardinality(places) |-> Strip(arg.featureEls[NthPlace(places, k)])]

Smaller(a, b) == IF a < b THEN a ELSE b

\* C29: extract_features_from_homepage looks at the first 10 class-matched
\* elements only and filters afterwards: its result is the qualifying texts
\* among those 10, so a qualifying text at place 11 or later is never in it,
\* even when fewer than 10 of the first 10 qualified.  The features-page
\* extractor filters first and cuts to 20 afterwards: its list is as long as
\* the number of qualifying texts of the whole page allows, up to 20.
C29_HomepageCutsBeforeFiltering ==
    /\ FromHomepage =>
        /\ ret = List(TextsAt(ScannedPlaces))
        /\ \A i \in QualifyingPlaces(HomepageFeatureMaxLen) :
            i > HomepageFeatureScan =>
                \A k \in 1..Len(ret.l) : ret.l[k] # Strip(arg.featureEls[i])
    /\ (FromPage /\ ret # None) =>
        Len(ret.l) = Smaller(Cardinality(QualifyingPlaces(PageFeatureMaxLen)), PageFeatureCap)

\* a homepage whose first elements are blank and whose qualifying texts go
\* on past the tenth element: the list has fewer than 10 entries
C29_Witness ==
    /\ FromHomepage
    /\ \E i \in QualifyingPlaces(HomepageFeatureMaxLen) : i > HomepageFeatureScan
    /\ Cardinality(ScannedPlaces) \in 1..(HomepageFeatureScan - 1)
    /\ Len(ret.l) = Cardinality(ScannedPlaces)

(***************************************************************************)
(* extract_tier_name, extract_tier_price and extract_pricing_from_page on  *)
(* one pricing element: every selector matches nothing, an element without *)
(* text, or an element whose text names the selector.                      *)
(***************************************************************************)
name_selectors == <<".tier-name", ".plan-name", "h3", "h4">>
price_selectors == <<".price", ".cost", ".amount">>

\* the text of the element a selector matches, when it has one
SelectorText ==
    (".tier-name" :> Str(<<"T">>)) @@ (".plan-name" :> Str(<<" ", "P", " ">>))
    @@ ("h3" :> Str(<<"3">>)) @@ ("h4" :> Str(<<"4">>))
    @@ (".price" :> Str(<<"$", "1">>)) @@ (".cost" :> Str(<<"$", "2", "\n">>))
    @@ (".amount" :> Str(<<"$", "3">>))

TierElements ==
    UNION {[matched -> {"blank", "text"}] : matched \in SUBSET DOMAIN SelectorText}

\* the element as select_one sees it
TierElement(shape) ==
    [sel \in DOMAIN shape |-> IF shape[sel] = "blank" THEN Str(<<" ">>) ELSE SelectorText[sel]]

InitTiers ==
    /\ fn \in {"extract_tier_name", "extract_tier_price", "extract_pricing_from_page"}
    /\ \E shape \in TierElements :
        arg = IF fn = "extract_pricing_from_page"
              THEN Page(None, NoSel, <<>>, <<TierElement(shape)>>)
              ELSE TierElement(shape)
    /\ ret = NotRun
    /\ DiscoverIdle /\ ScrapeIdle /\ PipelineIdle /\ AnalyzeIdle /\ TableIdle

ExtractTierName ==
    /\ fn = "extract_tier_name" /\ ret = NotRun
    /\ ret' = Returned(extract_tier_name(arg))
    /\ UNCHANGED <<fn, arg>>
    /\ UNCHANGED notCallVars

ExtractTierPrice ==
    /\ fn = "extract_tier_price" /\ ret = NotRun
    /\ ret' = Returned(extract_tier_price(arg))
    /\ UNCHANGED <<fn, arg>>
    /\ UNCHANGED notCallVars

ExtractTiers ==
    /\ fn = "extract_pricing_from_page" /\ ret = NotRun
    /\ ret' = Returned(extract_pricing_from_page(arg))
    /\ UNCHANGED <<fn, arg>>
    /\ UNCHANGED notCallVars

NextTiers == ExtractTierName \/ ExtractTierPrice \/ ExtractTiers

SpecTiers == InitTiers /\ [][NextTiers]_vars

(***************************************************************************)
(* Claims about the tier extractors (checked under SpecTiers).             *)
(***************************************************************************)
TierDone == ret # NotRun

\* the pricing element the call is about
TierArg == IF fn = "extract_pricing_from_page" THEN arg.pricingEls[1] ELSE arg

\* the places of the selectors that match something in the element
MatchingPlaces(selectors) ==
    {i \in 1..Len(selectors) : selectors[i] \in DOMAIN TierArg}

\* the first selector, in priority order, that matches
FirstMatching(selectors) ==
    selectors[CHOOSE i \in MatchingPlaces(selectors) :
                \A j \in MatchingPlaces(selectors) : i <= j]

\* the text the first matching selector gives, "" when none matches
TopText(selectors) ==
    IF MatchingPlaces(selectors) = {} THEN EmptyStr
    ELSE Strip(TierArg[FirstMatching(selectors)])

\* a selector after the first matching one would have given text
LaterText(selectors) ==
    \E i \in MatchingPlaces(selectors) : Strip(TierArg[selectors[i]]) # EmptyStr

\* C30: extract_tier_name and extract_tier_price return the text of the
\* first selector in priority order that matches an element, even when that
\* text is empty; they do not go on to later selectors.  So a pricing
\* element whose highest-priority matching name (or price) element is empty
\* contributes no tier, even if a lower-priority selector would have given
\* text.
C30_FirstMatchingSelectorDecides ==
    /\ (TierDone /\ fn = "extract_tier_name") => ret.value = TopText(name_selectors)
    /\ (TierDone /\ fn = "extract_tier_price") => ret.value = TopText(price_selectors)
    /\ (TierDone /\ fn = "extract_pricing_from_page") =>
        IF TopText(name_selectors) = EmptyStr \/ TopText(price_selectors) = EmptyStr
        THEN ret.value = None
        ELSE ret.value = List(<<[name |-> TopText(name_selectors),
                                 price |-> TopText(price_selectors)]>>)

\* an element with an empty .tier-name, a name under a later selector and a
\* price: no tier
C30_Witness ==
    /\ TierDone /\ fn = "extract_pricing_from_page"
    /\ TopText(name_selectors) = EmptyStr /\ LaterText(name_selectors)
    /\ TopText(price_selectors) # EmptyStr
    /\ ret.value = None

====
